---- MODULE Spec2Model ----
(***************************************************************************)
(* State machine of the unified 'fus/update:1' step handler               *)
(* (FSUpdateHandlerImpl) together with the two actors it rendezvouses      *)
(* with: the out-of-band controller, which creates sentinel files in the   *)
(* work directory, and the external updater, of which only the exit code   *)
(* of each child process is visible.                                       *)
(*                                                                         *)
(* Exit codes and result codes are kept symbolic: the enumerations come    *)
(* from fs_updater_error.h and aduc/result.h, whose numeric values are not *)
(* part of the handler.  The handler compares exit codes for equality      *)
(* only, so a symbolic name per enumerator is enough.                      *)
(***************************************************************************)
EXTENDS Integers, Sequences, FiniteSets, TLC

VARIABLES
    pc,           \* position of the handler thread; "idle" between calls,
                  \* "returned" while the host holds the outcome of a call
    op,           \* lifecycle operation being (or last) executed
    wf,           \* workflow input of the current call
    result,       \* ADUC_Result: local 'result', the outcome once pc = "returned"
    update_type,  \* FSUpdateHandlerImpl::update_type (cached update kind)
    updateType,   \* Download local: update_type_names[update_type]
    up_type,      \* Install / IsInstalled local
    cmd_output,   \* IsInstalled local: captured stdout, as a token sequence
    file_path,    \* Download local: the stamp being written
    dirExists,    \* the work directory exists
    sentinels,    \* sentinel files present in the work directory
    content,      \* content of each stamp file, NoFile when absent
    open,         \* stamp files the handler holds open for writing
    log           \* what the current call has done so far

vars == <<pc, op, wf, result, update_type, updateType, up_type, cmd_output,
          file_path, dirExists, sentinels, content, open, log>>

-----------------------------------------------------------------------------
(* Work directory layout *)

Sentinels == {"downloadUpdate", "installUpdate", "applyUpdate"}

Stamps == {"update_version", "update_type", "update_size",
           "update_location", "errorState"}

NoFile == "<absent>"

Empty == ""

NoStamps == [s \in Stamps |-> NoFile]

-----------------------------------------------------------------------------
(* Update kinds *)

UPDATE_FIRMWARE == "UPDATE_FIRMWARE"

UPDATE_APPLICATION == "UPDATE_APPLICATION"

UPDATE_COMMON_FIRMWARE == "UPDATE_COMMON_FIRMWARE"

UPDATE_COMMON_APPLICATION == "UPDATE_COMMON_APPLICATION"

UPDATE_COMMON_BOTH == "UPDATE_COMMON_BOTH"

UPDATE_UNKNOWN == "UPDATE_UNKNOWN"

\* the member has no initialiser: its value is indeterminate until set
Uninitialized == "uninitialized"

IndexedKinds == {UPDATE_FIRMWARE, UPDATE_APPLICATION, UPDATE_COMMON_FIRMWARE,
                 UPDATE_COMMON_APPLICATION, UPDATE_COMMON_BOTH}

Kinds == IndexedKinds \cup {UPDATE_UNKNOWN}

update_type_names == [k \in IndexedKinds |->
    CASE k = UPDATE_FIRMWARE -> "firmware"
      [] k = UPDATE_APPLICATION -> "application"
      [] k = UPDATE_COMMON_FIRMWARE -> "common-firmware"
      [] k = UPDATE_COMMON_APPLICATION -> "common-application"
      [] k = UPDATE_COMMON_BOTH -> "common-both"]

\* an out-of-bounds read of update_type_names yields no valid C string
Garbage == "<garbage>"

getUpdateTypeByName(updateTypeName) ==
    CASE updateTypeName = "firmware" -> UPDATE_FIRMWARE
      [] updateTypeName = "application" -> UPDATE_APPLICATION
      [] updateTypeName = "common-application" -> UPDATE_COMMON_APPLICATION
      [] updateTypeName = "common-firmware" -> UPDATE_COMMON_FIRMWARE
      [] updateTypeName = "common-both" -> UPDATE_COMMON_BOTH
      [] OTHER -> UPDATE_UNKNOWN

\* values a read of the member update_type can produce
ReadUpdateType(member) ==
    IF member = Uninitialized THEN Kinds ELSE {member}

-----------------------------------------------------------------------------
(* Exit codes of the updater (fs_updater_error.h), symbolic: one name per *)
(* enumerator that the handlers compare an exit code with                 *)

UPDATER_FIRMWARE_STATE ==
    [UPDATE_SUCCESSFUL |-> "UPDATER_FIRMWARE_STATE::UPDATE_SUCCESSFUL"]

UPDATER_APPLICATION_STATE ==
    [UPDATE_SUCCESSFUL |-> "UPDATER_APPLICATION_STATE::UPDATE_SUCCESSFUL"]

UPDATER_FIRMWARE_AND_APPLICATION_STATE ==
    [UPDATE_SUCCESSFUL |-> "UPDATER_FIRMWARE_AND_APPLICATION_STATE::UPDATE_SUCCESSFUL",
     UPDATE_INTERNAL_ERROR |-> "UPDATER_FIRMWARE_AND_APPLICATION_STATE::UPDATE_INTERNAL_ERROR"]

UPDATER_COMMIT_STATE ==
    [UPDATE_COMMIT_SUCCESSFUL |-> "UPDATER_COMMIT_STATE::UPDATE_COMMIT_SUCCESSFUL",
     UPDATE_NOT_NEEDED |-> "UPDATER_COMMIT_STATE::UPDATE_NOT_NEEDED"]

UPDATER_UPDATE_ROLLBACK_STATE ==
    [UPDATE_ROLLBACK_SUCCESSFUL |-> "UPDATER_UPDATE_ROLLBACK_STATE::UPDATE_ROLLBACK_SUCCESSFUL"]

UPDATER_UPDATE_REBOOT_STATE ==
    [UPDATE_REBOOT_PENDING |-> "UPDATE_REBOOT_PENDING",
     NO_UPDATE_REBOOT_PENDING |-> "NO_UPDATE_REBOOT_PENDING",
     INCOMPLETE_FW_UPDATE |-> "INCOMPLETE_FW_UPDATE",
     INCOMPLETE_APP_UPDATE |-> "INCOMPLETE_APP_UPDATE",
     INCOMPLETE_APP_FW_UPDATE |-> "INCOMPLETE_APP_FW_UPDATE",
     FAILED_APP_UPDATE |-> "FAILED_APP_UPDATE",
     FAILED_FW_UPDATE |-> "FAILED_FW_UPDATE",
     FW_UPDATE_REBOOT_FAILED |-> "FW_UPDATE_REBOOT_FAILED",
     ROLLBACK_FW_REBOOT_PENDING |-> "ROLLBACK_FW_REBOOT_PENDING"]

\* the enumerators of a symbolic enumeration
Enumerators(enum) == {enum[name] : name \in DOMAIN enum}

\* exit code 0, and an exit code that is none of the enumerators above
EXIT_ZERO == "0"

EXIT_OTHER == "exit-other"

InstallSuccessCodes ==
    {UPDATER_FIRMWARE_STATE.UPDATE_SUCCESSFUL,
     UPDATER_APPLICATION_STATE.UPDATE_SUCCESSFUL,
     UPDATER_FIRMWARE_AND_APPLICATION_STATE.UPDATE_SUCCESSFUL}

\* what a child process can exit with
ExitCodes ==
    Enumerators(UPDATER_UPDATE_REBOOT_STATE) \cup InstallSuccessCodes
        \cup Enumerators(UPDATER_FIRMWARE_AND_APPLICATION_STATE)
        \cup Enumerators(UPDATER_COMMIT_STATE)
        \cup Enumerators(UPDATER_UPDATE_ROLLBACK_STATE)
        \cup {EXIT_ZERO, EXIT_OTHER}

-----------------------------------------------------------------------------
(* Outcomes (aduc/result.h and the extended result codes), symbolic *)

ADUC_Result ==
    [Failure |-> "ADUC_Result_Failure",
     Failure_Cancelled |-> "ADUC_Result_Failure_Cancelled",
     Download_Success |-> "ADUC_Result_Download_Success",
     Install_Success |-> "ADUC_Result_Install_Success",
     Apply_Success |-> "ADUC_Result_Apply_Success",
     Apply_RequiredImmediateReboot |-> "ADUC_Result_Apply_RequiredImmediateReboot",
     Cancel_Success |-> "ADUC_Result_Cancel_Success",
     Cancel_RequiredImmediateReboot |-> "ADUC_Result_Cancel_RequiredImmediateReboot",
     IsInstalled_Installed |-> "ADUC_Result_IsInstalled_Installed",
     IsInstalled_NotInstalled |-> "ADUC_Result_IsInstalled_NotInstalled",
     IsInstalled_MissingCommit |-> "ADUC_Result_IsInstalled_MissingCommit",
     Backup_Success |-> "ADUC_Result_Backup_Success",
     Restore_Success_Unsupported |-> "ADUC_Result_Restore_Success_Unsupported"]

\* ADUC_ERC_FSUPDATE_HANDLER_..., and the failure of the content downloader
ERC ==
    [DOWNLOAD_FAILURE_WRONG_FILECOUNT |-> "DOWNLOAD_FAILURE_WRONG_FILECOUNT",
     DOWNLOAD_BAD_FILE_ENTITY |-> "DOWNLOAD_BAD_FILE_ENTITY",
     DOWNLOAD_FAILURE_UNKNOW_UPDATE_VERSION |-> "DOWNLOAD_FAILURE_UNKNOW_UPDATE_VERSION",
     DOWNLOAD_FAILURE_WRONG_UPDATE_VERSION |-> "DOWNLOAD_FAILURE_WRONG_UPDATE_VERSION",
     DOWNLOAD_EXTENSION_FAILURE |-> "download-extension-failure",
     INSTALL_FAILURE_CANNOT_OPEN_WORKFOLDER |-> "INSTALL_FAILURE_CANNOT_OPEN_WORKFOLDER",
     INSTALL_FAILURE_BAD_FILE_ENTITY |-> "INSTALL_FAILURE_BAD_FILE_ENTITY",
     INSTALL_FAILURE_FIRMWARE_UPDATE |-> "INSTALL_FAILURE_FIRMWARE_UPDATE",
     INSTALL_FAILURE_APPLICATION_UPDATE |-> "INSTALL_FAILURE_APPLICATION_UPDATE",
     INSTALL_FAILURE_COMMIT_UPDATE |-> "INSTALL_FAILURE_COMMIT_UPDATE",
     MISSING_UPDATE_TYPE_PROPERTY |-> "MISSING_UPDATE_TYPE_PROPERTY",
     APPLY_FAILURE_UNKNOWN_ERROR |-> "APPLY_FAILURE_UNKNOWN_ERROR",
     CANCEL_ROLLBACK_FIRMWARE_ERROR |-> "CANCEL_ROLLBACK_FIRMWARE_ERROR",
     CANCEL_NOT_ALLOWED_STATE_ERROR |-> "CANCEL_NOT_ALLOWED_STATE_ERROR",
     ISINSTALLED_FAILURE_UNKNOWN_STATE |-> "ISINSTALLED_FAILURE_UNKNOWN_STATE",
     ISINSTALLED_FAILURE_COMMIT_PREVIOUS_FAILED_UPDATE |->
         "ISINSTALLED_FAILURE_COMMIT_PREVIOUS_FAILED_UPDATE"]

\* ExtendedResultCode of an ADUC_Result initialised with a result code only
NoExtendedCode == "0"

\* 'ADUC_Result result;' without initialiser
Indeterminate == "indeterminate"

CreateFailedCode(stamp) ==
    CASE stamp = "update_version" -> "DOWNLOAD_FAILURE_CREATE_FAILED_UPDATE_VERSION"
      [] stamp = "update_type" -> "DOWNLOAD_FAILURE_CREATE_FAILED_UPDATE_TYPE"
      [] stamp = "update_size" -> "DOWNLOAD_FAILURE_CREATE_FAILED_UPDATE_SIZE"
      [] stamp = "update_location" -> "DOWNLOAD_FAILURE_CREATE_FAILED_UPDATE_LOCATION"

Res(rc, erc) == [ResultCode |-> rc, ExtendedResultCode |-> erc]

-----------------------------------------------------------------------------
(* Inputs of a lifecycle call, drawn from small sets *)

FileCounts == {0, 1, 2}

TypeNames == {"", "firmware", "application", "common-firmware",
              "common-application", "common-both", "bogus"}

InstalledCriteria == {"1.0"}

UpdateSizes == {0, 15}

WorkFolders == {"/var/lib/adu/downloads/wf"}

TargetFilenames == {"update.fs"}

NoWorkflow == [fileCount |-> 1, fileOk |-> TRUE, workFolderOk |-> TRUE,
               typeName |-> "", installedCriteria |-> "1.0", updateSize |-> 0,
               workFolder |-> "/var/lib/adu/downloads/wf",
               targetFilename |-> "update.fs", updateTypeToken |-> "fus/update:1"]

-----------------------------------------------------------------------------
(* What a call has done: child processes launched, sentinels observed,     *)
(* stamps opened and closed, downloader and reboot requests.  A launch, a  *)
(* download and a reboot request record whether the sentinel of the phase  *)
(* existed at that moment.                                                 *)

\* the sentinel that gates a lifecycle phase
PhaseSentinel(phase) ==
    CASE phase = "Download" -> "downloadUpdate"
      [] phase = "Install" -> "installUpdate"
      [] phase = "Apply" -> "applyUpdate"
      [] OTHER -> "none"

Event(ev, what, args, exit, armed) ==
    [ev |-> ev, what |-> what, args |-> args, exit |-> exit, armed |-> armed]

Launch(action, args, exit) ==
    Event("launch", action, args, exit, PhaseSentinel(op) \in sentinels)

Note(ev, what) == Event(ev, what, <<>>, "", FALSE)

Gated(ev, what) == Event(ev, what, <<>>, "", PhaseSentinel(op) \in sentinels)

Events(l, ev) == {i \in 1..Len(l) : l[i].ev = ev}

Launched(l, action) == {i \in 1..Len(l) : l[i].ev = "launch" /\ l[i].what = action}

Happened(l, ev, what) == {i \in 1..Len(l) : l[i].ev = ev /\ l[i].what = what}

-----------------------------------------------------------------------------
Init ==
    /\ pc = "idle"
    /\ op = "none"
    /\ wf = NoWorkflow
    /\ result = Res(Indeterminate, Indeterminate)
    /\ update_type = Uninitialized
    /\ updateType = ""
    /\ up_type = UPDATE_UNKNOWN
    /\ cmd_output = <<>>
    /\ file_path = ""
    /\ dirExists \in BOOLEAN
    /\ sentinels = {}
    /\ content = NoStamps
    /\ open = {}
    /\ log = <<>>

\* a lifecycle call returns 'r' to the host
Return(r) ==
    /\ pc' = "returned"
    /\ result' = r
    /\ updateType' = ""
    /\ up_type' = UPDATE_UNKNOWN
    /\ cmd_output' = <<>>
    /\ file_path' = ""

\* the host dispatches lifecycle calls serially
Dispatch(name, input) ==
    /\ pc = "idle"
    /\ op' = name
    /\ wf' = input

-----------------------------------------------------------------------------
\* the host takes the outcome; the call's stack is gone
HostTakesResult ==
    /\ pc = "returned"
    /\ pc' = "idle"
    /\ op' = "none"
    /\ wf' = NoWorkflow
    /\ result' = Res(Indeterminate, Indeterminate)
    /\ log' = <<>>
    /\ UNCHANGED <<update_type, updateType, up_type, cmd_output, file_path,
                   dirExists, sentinels, content, open>>

\* the sentinel waits of the phases
SentinelWaits == {"dl_wait", "in_wait", "ap_wait"}

\* the host asks for cancellation while a phase waits for its sentinel; the
\* wait loops read nothing but the existence of the sentinel
HostSignalsCancel ==
    /\ pc \in SentinelWaits
    /\ Happened(log, "cancel", "host") = {}
    /\ log' = Append(log, Note("cancel", "host"))
    /\ UNCHANGED <<pc, op, wf, result, update_type, updateType, up_type, cmd_output,
                   file_path, dirExists, sentinels, content, open>>

(* The controller: creates sentinel files in the work directory *)

ControllerCreate ==
    \E s \in Sentinels :
        /\ pc \notin {"crashed", "threw"}
        /\ dirExists
        /\ s \notin sentinels
        /\ sentinels' = sentinels \cup {s}
        /\ UNCHANGED <<pc, op, wf, result, update_type, updateType, up_type,
                       cmd_output, file_path, dirExists, content, open, log>>

-----------------------------------------------------------------------------
(* Stamp files *)

\* std::ofstream(path): fails when the directory is missing, and may fail
\* for any other reason the file system has
OpenOutcomes == IF dirExists THEN BOOLEAN ELSE {FALSE}

Digit(d) ==
    CASE d = 0 -> "0" [] d = 1 -> "1" [] d = 2 -> "2" [] d = 3 -> "3"
      [] d = 4 -> "4" [] d = 5 -> "5" [] d = 6 -> "6" [] d = 7 -> "7"
      [] d = 8 -> "8" [] d = 9 -> "9"

RECURSIVE ToDecimal(_)
\* operator<<(int), for a non-negative value
ToDecimal(n) ==
    IF n < 10 THEN Digit(n) ELSE ToDecimal(n \div 10) \o Digit(n % 10)

\* updateFilename << workFolder << "/" << fileEntity.TargetFilename
UpdateFilename(w) == w.workFolder \o "/" \o w.targetFilename

\* what Download streams into the stamp 'stamp'
StampText(stamp) ==
    CASE stamp = "update_version" -> wf.installedCriteria
      [] stamp = "update_type" -> updateType
      [] stamp = "update_size" -> ToDecimal(wf.updateSize)
      [] stamp = "update_location" -> UpdateFilename(wf)

\* error_state << ResultCode; error_state << ExtendedResultCode;
ErrorStateText(r) == r.ResultCode \o r.ExtendedResultCode

-----------------------------------------------------------------------------
(* Download *)

\* the workflow carries handler_properties.updateType and the update-type
\* token of the update manifest; Download reads neither
DownloadInputs ==
    {[NoWorkflow EXCEPT !.fileCount = c, !.fileOk = f, !.installedCriteria = v,
                        !.updateSize = z, !.workFolder = d, !.targetFilename = t,
                        !.typeName = n, !.updateTypeToken = u] :
        c \in FileCounts, f \in BOOLEAN, v \in InstalledCriteria,
        z \in UpdateSizes, d \in WorkFolders, t \in TargetFilenames,
        n \in {"firmware", "application"},
        u \in {"fus/update:1", "fus/update:2", "fus/update"}}

\* the name read through update_type_names[this->update_type]
UpdateTypeNameOf(k) ==
    IF k \in IndexedKinds THEN update_type_names[k] ELSE Garbage

\* ExtensionManager::Download: its result is propagated unchanged
DownloaderResults ==
    {Res(ADUC_Result.Download_Success, NoExtendedCode),
     Res(ADUC_Result.Failure, ERC.DOWNLOAD_EXTENSION_FAILURE)}

\* faulty variant: only more than one file is refused
DownloadPrecheck_AtMostOne(input) ==
    IF input.fileCount > 1
    THEN Res(ADUC_Result.Failure, ERC.DOWNLOAD_FAILURE_WRONG_FILECOUNT)
    ELSE IF ~input.fileOk
    THEN Res(ADUC_Result.Failure, ERC.DOWNLOAD_BAD_FILE_ENTITY)
    ELSE Res(ADUC_Result.Failure, NoExtendedCode)

\* the checks before the work directory is touched; each failure jumps to
\* 'done'
DownloadPrecheck(input) ==
    IF input.fileCount # 1
    THEN Res(ADUC_Result.Failure, ERC.DOWNLOAD_FAILURE_WRONG_FILECOUNT)
    ELSE IF ~input.fileOk
    THEN Res(ADUC_Result.Failure, ERC.DOWNLOAD_BAD_FILE_ENTITY)
    ELSE Res(ADUC_Result.Failure, NoExtendedCode)

DownloadBegin ==
    \E input \in DownloadInputs :
        /\ Dispatch("Download", input)
        /\ log' = <<>>
        /\ IF DownloadPrecheck(input).ExtendedResultCode # NoExtendedCode
           THEN /\ Return(DownloadPrecheck(input))
           ELSE /\ \E k \in ReadUpdateType(update_type) :
                     updateType' = UpdateTypeNameOf(k)
                /\ pc' = "dl_reset"
                /\ result' = Res(ADUC_Result.Failure, NoExtendedCode)
                /\ UNCHANGED <<up_type, cmd_output, file_path>>
        /\ UNCHANGED <<update_type, dirExists, sentinels, content, open>>

\* faulty variant: the directory is created when missing, its content is kept
create_work_dir_KeepsContent ==
    /\ UNCHANGED <<sentinels, content>>
    /\ dirExists' = TRUE

\* faulty variant: the stamps are removed, the sentinels stay
create_work_dir_KeepsSentinels ==
    /\ UNCHANGED sentinels
    /\ content' = NoStamps
    /\ dirExists' = TRUE

\* create_work_dir(): remove_all when present, then create_directory, whose
\* failure is caught and only logged
create_work_dir ==
    /\ sentinels' = {}
    /\ content' = NoStamps
    /\ dirExists' \in BOOLEAN

\* what the catch block of create_work_dir can have caught: nothing, the
\* error of create_directory (no directory then), or the error of
\* permissions on the directory just created
CaughtInReset(created) ==
    IF created THEN {"", "permissions"} ELSE {"create_directory"}

\* remove_all(work_dir) stands outside the try block of create_work_dir: when
\* it fails, std::filesystem::filesystem_error leaves Download
DownloadReset ==
    /\ pc = "dl_reset"
    /\ \/ /\ create_work_dir
          /\ \E caught \in CaughtInReset(dirExists') :
                log' = Append(log, Gated("reset", ""))
                           \o (IF caught = "" THEN <<>>
                               ELSE <<Note("caught", caught)>>)
          /\ pc' = "dl_open"
          /\ file_path' = "update_version"
       \/ /\ dirExists
          /\ pc' = "threw"
          /\ log' = Append(log, Note("throw", "remove_all"))
          /\ UNCHANGED <<file_path, dirExists, sentinels, content>>
    /\ UNCHANGED <<op, wf, result, update_type, updateType, up_type, cmd_output, open>>

DownloadOpen ==
    /\ pc = "dl_open"
    /\ \E ok \in OpenOutcomes :
        IF ok
        THEN /\ content' = [content EXCEPT ![file_path] = Empty]
             /\ open' = open \cup {file_path}
             /\ log' = Append(log, Note("open", file_path))
             /\ pc' = "dl_write"
             /\ UNCHANGED <<result, updateType, up_type, cmd_output, file_path>>
        ELSE /\ Return(Res(ADUC_Result.Failure, CreateFailedCode(file_path)))
             /\ UNCHANGED <<content, open, log>>
    /\ UNCHANGED <<op, wf, update_type, dirExists, sentinels>>

\* faulty variant: the wait starts before update_size is written
AfterStamp_WaitBeforeSize(stamp) ==
    CASE stamp = "update_version" -> [pc |-> "dl_open", file_path |-> "update_type"]
      [] stamp = "update_type" -> [pc |-> "dl_wait", file_path |-> "update_type"]
      [] stamp = "update_size" -> [pc |-> "dl_wait", file_path |-> "update_size"]
      [] stamp = "update_location" -> [pc |-> "dl_content", file_path |-> "update_location"]

\* where Download goes after closing a stamp
AfterStamp(stamp) ==
    CASE stamp = "update_version" -> [pc |-> "dl_open", file_path |-> "update_type"]
      [] stamp = "update_type" -> [pc |-> "dl_open", file_path |-> "update_size"]
      [] stamp = "update_size" -> [pc |-> "dl_wait", file_path |-> "update_size"]
      [] stamp = "update_location" -> [pc |-> "dl_content", file_path |-> "update_location"]

\* 'stream << text; stream.close();'
DownloadWrite ==
    /\ pc = "dl_write"
    /\ \/ /\ content' = [content EXCEPT ![file_path] = StampText(file_path)]
          /\ open' = open \ {file_path}
          /\ log' = Append(log, Note("close", file_path))
          /\ pc' = AfterStamp(file_path).pc
          /\ file_path' = AfterStamp(file_path).file_path
       \/ \* streaming a pointer read out of bounds may fault
          /\ StampText(file_path) = Garbage
          /\ pc' = "crashed"
          /\ UNCHANGED <<content, open, log, file_path>>
       \/ \* std::filesystem::permissions on the closed stamp throws when it fails
          /\ content' = [content EXCEPT ![file_path] = StampText(file_path)]
          /\ open' = open \ {file_path}
          /\ log' = Append(Append(log, Note("close", file_path)),
                           Note("throw", "permissions"))
          /\ pc' = "threw"
          /\ UNCHANGED file_path
    /\ UNCHANGED <<op, wf, result, update_type, updateType, up_type, cmd_output,
                   dirExists, sentinels>>

\* faulty variant: Download goes on without looking for the sentinel
DownloadWait_NoSentinel ==
    /\ pc = "dl_wait"
    /\ log' = Append(log, Gated("observed", "downloadUpdate"))
    /\ pc' = "dl_open"
    /\ file_path' = "update_location"
    /\ UNCHANGED <<op, wf, result, update_type, updateType, up_type, cmd_output,
                   dirExists, sentinels, content, open>>

\* while (!exists(work_dir / "downloadUpdate")) ThreadAPI_Sleep(100);
DownloadWait ==
    /\ pc = "dl_wait"
    /\ "downloadUpdate" \in sentinels
    /\ log' = Append(log, Gated("observed", "downloadUpdate"))
    /\ pc' = "dl_open"
    /\ file_path' = "update_location"
    /\ UNCHANGED <<op, wf, result, update_type, updateType, up_type, cmd_output,
                   dirExists, sentinels, content, open>>

DownloadContent ==
    /\ pc = "dl_content"
    /\ \E r \in DownloaderResults :
        /\ log' = Append(log, Gated("download", wf.targetFilename))
        /\ Return(r)
    /\ UNCHANGED <<op, wf, update_type, dirExists, sentinels, content, open>>

-----------------------------------------------------------------------------
(* Updater Gateway *)

\* argument vector of the state / version / commit queries
ExecuteArgs(targetaction) ==
    <<"--update-type", "fus/update:1", "--update-action", "execute",
      "--target-options", targetaction, "-l 3">>

\* faulty variant: the exit code of the child is dropped
HandleExecuteAction_NoExitCode(exitCode) == Res(ADUC_Result.Failure, NoExtendedCode)

\* HandleExecuteAction: 'result = { ADUC_Result.Failure }' with the exit code
\* of the child as extended code
HandleExecuteAction(exitCode) == Res(ADUC_Result.Failure, exitCode)

-----------------------------------------------------------------------------
(* Install *)

InstallInputs ==
    {[NoWorkflow EXCEPT !.workFolderOk = d, !.fileOk = f, !.typeName = n,
                        !.workFolder = w, !.targetFilename = t] :
        d \in BOOLEAN, f \in BOOLEAN, n \in TypeNames,
        w \in WorkFolders, t \in TargetFilenames}

\* faulty variant: the work folder is left out of the target data
InstallData_FileOnly(w) == w.targetFilename

\* data << workFolder << "/" << fileEntity.TargetFilename
InstallData(w) == w.workFolder \o "/" \o w.targetFilename

InstallArgs(w, kind) ==
    <<"--update-type", "fus/update:1", "--update-action", "install",
      "--target-data", InstallData(w)>>
    \o (IF kind = UPDATE_APPLICATION THEN <<"--target-options", "app">>
        ELSE IF kind = UPDATE_FIRMWARE THEN <<"--target-options", "fw">>
        ELSE <<>>)

\* faulty variant: only the firmware success code counts as success
InstallOutcome_FirmwareOnly(exitCode, cached) ==
    IF exitCode = UPDATER_FIRMWARE_STATE.UPDATE_SUCCESSFUL
    THEN Res(ADUC_Result.Install_Success, NoExtendedCode)
    ELSE Res(ADUC_Result.Failure, ERC.INSTALL_FAILURE_BAD_FILE_ENTITY)

\* the mapping of the install exit code; 'cached' is what getUpdateType()
\* returns, the member update_type
InstallOutcome(exitCode, cached) ==
    IF exitCode \in InstallSuccessCodes
    THEN Res(ADUC_Result.Install_Success, NoExtendedCode)
    ELSE IF cached \in {UPDATE_FIRMWARE, UPDATE_COMMON_FIRMWARE}
    THEN Res(ADUC_Result.Failure, ERC.INSTALL_FAILURE_FIRMWARE_UPDATE)
    ELSE IF cached \in {UPDATE_APPLICATION, UPDATE_COMMON_APPLICATION}
    THEN Res(ADUC_Result.Failure, ERC.INSTALL_FAILURE_APPLICATION_UPDATE)
    ELSE Res(ADUC_Result.Failure, ERC.INSTALL_FAILURE_BAD_FILE_ENTITY)

\* faulty variant: the updateType property is not required
InstallPrecheck_NoTypeCheck(input) ==
    IF ~input.workFolderOk
    THEN Res(ADUC_Result.Failure, ERC.INSTALL_FAILURE_CANNOT_OPEN_WORKFOLDER)
    ELSE IF ~input.fileOk
    THEN Res(ADUC_Result.Failure, ERC.INSTALL_FAILURE_BAD_FILE_ENTITY)
    ELSE Res(ADUC_Result.Failure, NoExtendedCode)

\* the checks before the wait; each failure jumps to 'done'
InstallPrecheck(input) ==
    IF ~input.workFolderOk
    THEN Res(ADUC_Result.Failure, ERC.INSTALL_FAILURE_CANNOT_OPEN_WORKFOLDER)
    ELSE IF ~input.fileOk
    THEN Res(ADUC_Result.Failure, ERC.INSTALL_FAILURE_BAD_FILE_ENTITY)
    ELSE IF input.typeName = ""
    THEN Res(ADUC_Result.Failure, ERC.MISSING_UPDATE_TYPE_PROPERTY)
    ELSE Res(ADUC_Result.Failure, NoExtendedCode)

InstallBegin ==
    \E input \in InstallInputs :
        /\ Dispatch("Install", input)
        /\ log' = <<>>
        /\ result' = InstallPrecheck(input)
        /\ pc' = IF InstallPrecheck(input).ExtendedResultCode = NoExtendedCode
                 THEN "in_wait" ELSE "in_done"
        /\ UNCHANGED <<update_type, updateType, up_type, cmd_output, file_path,
                       dirExists, sentinels, content, open>>

\* faulty variant: Install goes on without looking at installUpdate
InstallWait_NoSentinel ==
    /\ pc = "in_wait"
    /\ log' = Append(log, Gated("observed", "installUpdate"))
    /\ pc' = "in_launch"
    /\ UNCHANGED <<op, wf, result, update_type, updateType, up_type, cmd_output,
                   file_path, dirExists, sentinels, content, open>>

\* while (!exists(work_dir / "installUpdate")) ThreadAPI_Sleep(100);
InstallWait ==
    /\ pc = "in_wait"
    /\ "installUpdate" \in sentinels
    /\ log' = Append(log, Gated("observed", "installUpdate"))
    /\ pc' = "in_launch"
    /\ UNCHANGED <<op, wf, result, update_type, updateType, up_type, cmd_output,
                   file_path, dirExists, sentinels, content, open>>

InstallLaunch ==
    /\ pc = "in_launch"
    /\ \E exitCode \in ExitCodes, cached \in ReadUpdateType(update_type) :
        /\ up_type' = getUpdateTypeByName(wf.typeName)
        /\ log' = Append(log, Launch("install", InstallArgs(wf, up_type'), exitCode))
        /\ result' = InstallOutcome(exitCode, cached)
    /\ pc' = "in_done"
    /\ UNCHANGED <<op, wf, update_type, updateType, cmd_output, file_path,
                   dirExists, sentinels, content, open>>

\* faulty variant: the sentinel is removed after a successful install as well
InstallRemove_Always ==
    /\ pc = "in_done"
    /\ sentinels' = sentinels \ {"installUpdate"}
    /\ log' = Append(log, Note("remove", "installUpdate"))
    /\ pc' = "in_errorstate"
    /\ UNCHANGED <<op, wf, result, update_type, updateType, up_type, cmd_output,
                   file_path, dirExists, content, open>>

\* faulty variant: the sentinel is never removed
InstallRemove_Never ==
    /\ pc = "in_done"
    /\ pc' = "in_errorstate"
    /\ UNCHANGED <<op, wf, result, update_type, updateType, up_type, cmd_output,
                   file_path, dirExists, sentinels, content, open, log>>

\* done: remove installUpdate unless the install succeeded
InstallRemove ==
    /\ pc = "in_done"
    /\ \/ /\ IF result.ResultCode # ADUC_Result.Install_Success
             THEN /\ sentinels' = sentinels \ {"installUpdate"}
                  /\ log' = Append(log, Note("remove", "installUpdate"))
             ELSE UNCHANGED <<sentinels, log>>
          /\ pc' = "in_errorstate"
       \/ \* std::filesystem::remove throws when the removal fails
          /\ result.ResultCode # ADUC_Result.Install_Success
          /\ pc' = "threw"
          /\ log' = Append(log, Note("throw", "remove"))
          /\ UNCHANGED sentinels
    /\ UNCHANGED <<op, wf, result, update_type, updateType, up_type, cmd_output,
                   file_path, dirExists, content, open>>

\* WriteErrorState: std::ofstream error_state(error_file); a failure to open
\* is logged and the writes then have no effect
InstallErrorStateOpen ==
    /\ pc = "in_errorstate"
    /\ \E ok \in OpenOutcomes :
        IF ok
        THEN /\ content' = [content EXCEPT !["errorState"] = Empty]
             /\ open' = open \cup {"errorState"}
             /\ log' = Append(log, Note("open", "errorState"))
             /\ pc' = "in_errorwrite"
             /\ UNCHANGED <<result, updateType, up_type, cmd_output, file_path>>
        ELSE /\ Return(result)
             /\ log' = Append(log, Note("open-failed", "errorState"))
             /\ UNCHANGED <<content, open>>
    /\ UNCHANGED <<op, wf, update_type, dirExists, sentinels>>

\* faulty variant: the sentinel is removed once errorState is written
InstallErrorStateWrite_Removes ==
    /\ pc = "in_errorwrite"
    /\ content' = [content EXCEPT !["errorState"] = ErrorStateText(result)]
    /\ open' = open \ {"errorState"}
    /\ log' = Append(log, Note("close", "errorState"))
    /\ Return(result)
    /\ sentinels' = sentinels \ {"installUpdate"}
    /\ UNCHANGED <<op, wf, update_type, dirExists>>

\* WriteErrorState: both codes are streamed, the file is closed, Install returns
InstallErrorStateWrite ==
    /\ pc = "in_errorwrite"
    /\ content' = [content EXCEPT !["errorState"] = ErrorStateText(result)]
    /\ open' = open \ {"errorState"}
    /\ log' = Append(log, Note("close", "errorState"))
    /\ Return(result)
    /\ UNCHANGED <<op, wf, update_type, dirExists, sentinels>>

-----------------------------------------------------------------------------
(* Apply *)

ApplyWaitStates == {UPDATER_UPDATE_REBOOT_STATE.UPDATE_REBOOT_PENDING, UPDATER_UPDATE_REBOOT_STATE.INCOMPLETE_FW_UPDATE,
                    UPDATER_UPDATE_REBOOT_STATE.INCOMPLETE_APP_UPDATE, UPDATER_UPDATE_REBOOT_STATE.INCOMPLETE_APP_FW_UPDATE}

\* faulty variant: the case UPDATE_NOT_NEEDED is missing from the switch
ApplyOutcome_NoNotNeeded(exitCode) ==
    IF exitCode = UPDATER_UPDATE_REBOOT_STATE.NO_UPDATE_REBOOT_PENDING
    THEN Res(ADUC_Result.Apply_Success, NoExtendedCode)
    ELSE Res(ADUC_Result.Failure, ERC.APPLY_FAILURE_UNKNOWN_ERROR)

\* the switch over the exit code of the reboot-state query, for the cases
\* that do not wait
ApplyOutcome(exitCode) ==
    IF exitCode \in {UPDATER_UPDATE_REBOOT_STATE.NO_UPDATE_REBOOT_PENDING, UPDATER_COMMIT_STATE.UPDATE_NOT_NEEDED}
    THEN Res(ADUC_Result.Apply_Success, NoExtendedCode)
    ELSE Res(ADUC_Result.Failure, ERC.APPLY_FAILURE_UNKNOWN_ERROR)

ApplyBegin ==
    /\ Dispatch("Apply", NoWorkflow)
    /\ \E exitCode \in ExitCodes :
        /\ log' = Append(<<>>, Launch("execute", ExecuteArgs("--update_reboot_state"), exitCode))
        /\ IF exitCode \in ApplyWaitStates
           THEN /\ result' = HandleExecuteAction(exitCode)
                /\ pc' = "ap_wait"
                /\ UNCHANGED <<updateType, up_type, cmd_output, file_path>>
           ELSE Return(ApplyOutcome(exitCode))
    /\ UNCHANGED <<update_type, dirExists, sentinels, content, open>>

\* faulty variant: the incomplete states request the reboot as well
ApplyAfterWait_AlwaysReboot(r) ==
    [reboot |-> TRUE,
     result |-> Res(ADUC_Result.Apply_RequiredImmediateReboot, NoExtendedCode)]

\* after the wait: the reboot request for UPDATE_REBOOT_PENDING, nothing for
\* the incomplete states
ApplyAfterWait(r) ==
    IF r.ExtendedResultCode = UPDATER_UPDATE_REBOOT_STATE.UPDATE_REBOOT_PENDING
    THEN [reboot |-> TRUE,
          result |-> Res(ADUC_Result.Apply_RequiredImmediateReboot, NoExtendedCode)]
    ELSE [reboot |-> FALSE, result |-> r]

\* faulty variant: the reboot is requested without the wait for applyUpdate
ApplyWait_NoSentinel ==
    /\ pc = "ap_wait"
    /\ log' = Append(log, Gated("observed", "applyUpdate"))
                \o (IF ApplyAfterWait(result).reboot
                    THEN <<Gated("reboot", "")>> ELSE <<>>)
    /\ Return(ApplyAfterWait(result).result)
    /\ UNCHANGED <<op, wf, update_type, dirExists, sentinels, content, open>>

\* while (!exists(work_dir / "applyUpdate")) ThreadAPI_Sleep(100);
ApplyWait ==
    /\ pc = "ap_wait"
    /\ "applyUpdate" \in sentinels
    /\ log' = Append(log, Gated("observed", "applyUpdate"))
                \o (IF ApplyAfterWait(result).reboot
                    THEN <<Gated("reboot", "")>> ELSE <<>>)
    /\ Return(ApplyAfterWait(result).result)
    /\ UNCHANGED <<op, wf, update_type, dirExists, sentinels, content, open>>

-----------------------------------------------------------------------------
(* Cancel *)

CancelArgs ==
    <<"--update-type", "fus/update:1", "--update-action", "cancel">>

\* faulty variant: an incomplete firmware update is rolled back as well
CancelBranch_AnyIncomplete(exitCode) ==
    CASE exitCode \in {UPDATER_UPDATE_REBOOT_STATE.INCOMPLETE_APP_UPDATE, UPDATER_UPDATE_REBOOT_STATE.INCOMPLETE_FW_UPDATE} ->
            [pc |-> "ca_rollback", result |-> Res(ADUC_Result.Failure, exitCode)]
      [] exitCode = UPDATER_UPDATE_REBOOT_STATE.ROLLBACK_FW_REBOOT_PENDING ->
            [pc |-> "ca_commit", result |-> Res(ADUC_Result.Failure, exitCode)]
      [] exitCode = UPDATER_UPDATE_REBOOT_STATE.NO_UPDATE_REBOOT_PENDING ->
            [pc |-> "returned",
             result |-> Res(ADUC_Result.Failure_Cancelled, NoExtendedCode)]
      [] OTHER ->
            [pc |-> "returned",
             result |-> Res(ADUC_Result.Failure, ERC.CANCEL_NOT_ALLOWED_STATE_ERROR)]

\* the branch taken on the first reboot-state query
CancelBranch(exitCode) ==
    CASE exitCode = UPDATER_UPDATE_REBOOT_STATE.INCOMPLETE_APP_UPDATE ->
            [pc |-> "ca_rollback", result |-> HandleExecuteAction(exitCode)]
      [] exitCode = UPDATER_UPDATE_REBOOT_STATE.ROLLBACK_FW_REBOOT_PENDING ->
            [pc |-> "ca_commit", result |-> HandleExecuteAction(exitCode)]
      [] exitCode = UPDATER_UPDATE_REBOOT_STATE.NO_UPDATE_REBOOT_PENDING ->
            [pc |-> "returned",
             result |-> Res(ADUC_Result.Failure_Cancelled, NoExtendedCode)]
      [] OTHER ->
            [pc |-> "returned",
             result |-> Res(ADUC_Result.Failure, ERC.CANCEL_NOT_ALLOWED_STATE_ERROR)]

CancelBegin ==
    /\ Dispatch("Cancel", NoWorkflow)
    /\ \E exitCode \in ExitCodes :
        /\ log' = Append(<<>>, Launch("execute", ExecuteArgs("--update_reboot_state"), exitCode))
        /\ IF CancelBranch(exitCode).pc = "returned"
           THEN Return(CancelBranch(exitCode).result)
           ELSE /\ pc' = CancelBranch(exitCode).pc
                /\ result' = CancelBranch(exitCode).result
                /\ UNCHANGED <<updateType, up_type, cmd_output, file_path>>
    /\ UNCHANGED <<update_type, dirExists, sentinels, content, open>>

\* the rollback child; a failure returns at once
CancelRollback ==
    /\ pc = "ca_rollback"
    /\ \E exitCode \in ExitCodes :
        /\ log' = Append(log, Launch("cancel", CancelArgs, exitCode))
        /\ IF exitCode # UPDATER_UPDATE_ROLLBACK_STATE.UPDATE_ROLLBACK_SUCCESSFUL
           THEN Return(Res(ADUC_Result.Failure, ERC.CANCEL_ROLLBACK_FIRMWARE_ERROR))
           ELSE /\ pc' = "ca_requery"
                /\ result' = Res(ADUC_Result.Failure, exitCode)
                /\ UNCHANGED <<updateType, up_type, cmd_output, file_path>>
    /\ UNCHANGED <<op, wf, update_type, dirExists, sentinels, content, open>>

\* faulty variant: the reboot is requested on NO_UPDATE_REBOOT_PENDING instead
CancelAfterRollback_Swapped(exitCode) ==
    CASE exitCode = UPDATER_UPDATE_REBOOT_STATE.NO_UPDATE_REBOOT_PENDING ->
            [reboot |-> TRUE,
             result |-> Res(ADUC_Result.Cancel_RequiredImmediateReboot, NoExtendedCode)]
      [] exitCode = UPDATER_UPDATE_REBOOT_STATE.ROLLBACK_FW_REBOOT_PENDING ->
            [reboot |-> FALSE,
             result |-> Res(ADUC_Result.Cancel_Success, NoExtendedCode)]
      [] OTHER ->
            [reboot |-> FALSE,
             result |-> Res(ADUC_Result.Failure, ERC.CANCEL_NOT_ALLOWED_STATE_ERROR)]

\* faulty variant: the reboot is reported as required and never requested
CancelAfterRollback_NoRequest(exitCode) ==
    CASE exitCode = UPDATER_UPDATE_REBOOT_STATE.ROLLBACK_FW_REBOOT_PENDING ->
            [reboot |-> FALSE,
             result |-> Res(ADUC_Result.Cancel_RequiredImmediateReboot, NoExtendedCode)]
      [] exitCode = UPDATER_UPDATE_REBOOT_STATE.NO_UPDATE_REBOOT_PENDING ->
            [reboot |-> FALSE,
             result |-> Res(ADUC_Result.Cancel_Success, NoExtendedCode)]
      [] OTHER ->
            [reboot |-> FALSE,
             result |-> Res(ADUC_Result.Failure, ERC.CANCEL_NOT_ALLOWED_STATE_ERROR)]

\* the outcome on the reboot state read after a successful rollback
CancelAfterRollback(exitCode) ==
    CASE exitCode = UPDATER_UPDATE_REBOOT_STATE.ROLLBACK_FW_REBOOT_PENDING ->
            [reboot |-> TRUE,
             result |-> Res(ADUC_Result.Cancel_RequiredImmediateReboot, NoExtendedCode)]
      [] exitCode = UPDATER_UPDATE_REBOOT_STATE.NO_UPDATE_REBOOT_PENDING ->
            [reboot |-> FALSE,
             result |-> Res(ADUC_Result.Cancel_Success, NoExtendedCode)]
      [] OTHER ->
            [reboot |-> FALSE,
             result |-> Res(ADUC_Result.Failure, ERC.CANCEL_NOT_ALLOWED_STATE_ERROR)]

CancelRequery ==
    /\ pc = "ca_requery"
    /\ \E exitCode \in ExitCodes :
        /\ log' = Append(log, Launch("execute", ExecuteArgs("--update_reboot_state"), exitCode))
                    \o (IF CancelAfterRollback(exitCode).reboot
                        THEN <<Gated("reboot", "")>> ELSE <<>>)
        /\ Return(CancelAfterRollback(exitCode).result)
    /\ UNCHANGED <<op, wf, update_type, dirExists, sentinels, content, open>>

\* faulty variant: a commit that does not end in NO_UPDATE_REBOOT_PENDING fails
CancelAfterCommit_Fails(exitCode) ==
    IF exitCode = UPDATER_UPDATE_REBOOT_STATE.NO_UPDATE_REBOOT_PENDING
    THEN Res(ADUC_Result.Cancel_Success, NoExtendedCode)
    ELSE Res(ADUC_Result.Failure, ERC.CANCEL_NOT_ALLOWED_STATE_ERROR)

\* the outcome on the exit code of the commit issued for a pending rollback
CancelAfterCommit(exitCode) ==
    IF exitCode = UPDATER_UPDATE_REBOOT_STATE.NO_UPDATE_REBOOT_PENDING
    THEN Res(ADUC_Result.Cancel_Success, NoExtendedCode)
    ELSE Res(ADUC_Result.Cancel_Success, ERC.CANCEL_NOT_ALLOWED_STATE_ERROR)

CancelCommit ==
    /\ pc = "ca_commit"
    /\ \E exitCode \in ExitCodes :
        /\ log' = Append(log, Launch("execute", ExecuteArgs("--commit_update"), exitCode))
        /\ Return(CancelAfterCommit(exitCode))
    /\ UNCHANGED <<op, wf, update_type, dirExists, sentinels, content, open>>

-----------------------------------------------------------------------------
(* IsInstalled *)

Versions == {"1.0", "0.9"}

IsInstalledInputs ==
    {[NoWorkflow EXCEPT !.typeName = n, !.installedCriteria = v] :
        n \in TypeNames, v \in InstalledCriteria}

\* captured stdout of a version query, as the sequence of its
\* blank-separated words
VersionOutputs(option) ==
    {<<>>, <<option>>} \cup {<<v>> : v \in Versions}
        \cup {<<option, v>> : v \in Versions}

\* exit codes a version query is distinguished by: zero or not
VersionExitCodes == {EXIT_ZERO, EXIT_OTHER}

\* GetNextSubstringFromString: the word after 'substr' replaces the string;
\* without 'substr' the string is left alone; with nothing after 'substr',
\* substr(npos, ...) throws std::out_of_range
GetNextSubstringFromString(fullstr, substr) ==
    LET at == {i \in 1..Len(fullstr) : fullstr[i] = substr}
        pos == CHOOSE i \in at : \A j \in at : i <= j
    IN  IF at = {} THEN [throws |-> FALSE, fullstr |-> fullstr]
        ELSE IF pos = Len(fullstr) THEN [throws |-> TRUE, fullstr |-> fullstr]
        ELSE [throws |-> FALSE, fullstr |-> <<fullstr[pos + 1]>>]

\* target_option of the first version query
FirstTargetOption(kind) ==
    IF kind \in {UPDATE_APPLICATION, UPDATE_COMMON_APPLICATION}
    THEN "--application_version" ELSE "--firmware_version"

IsInstalledBegin ==
    \E input \in IsInstalledInputs :
        /\ Dispatch("IsInstalled", input)
        /\ log' = <<>>
        /\ IF input.typeName = ""
           THEN Return(Res(ADUC_Result.Failure, ERC.MISSING_UPDATE_TYPE_PROPERTY))
           ELSE IF getUpdateTypeByName(input.typeName) = UPDATE_UNKNOWN
           THEN Return(Res(ADUC_Result.Failure, UPDATER_FIRMWARE_AND_APPLICATION_STATE.UPDATE_INTERNAL_ERROR))
           ELSE /\ up_type' = getUpdateTypeByName(input.typeName)
                /\ pc' = "is_version"
                /\ result' = Res(Indeterminate, Indeterminate)
                /\ UNCHANGED <<updateType, cmd_output, file_path>>
        /\ UNCHANGED <<update_type, dirExists, sentinels, content, open>>

\* a version query and the comparison with installedCriteria; 'equal' and
\* 'differs' are the positions reached on either result of the comparison;
\* the call notes an empty output, and the result of each comparison
VersionQuery(option, equal, differs) ==
    \E exitCode \in VersionExitCodes, output \in VersionOutputs(option) :
        /\ IF exitCode # EXIT_ZERO
           THEN /\ Return(HandleExecuteAction(exitCode))
                /\ log' = Append(log, Launch("execute", ExecuteArgs(option), exitCode))
           ELSE IF output = <<>>
           THEN /\ Return(Res(ADUC_Result.Failure, NoExtendedCode))
                /\ log' = Append(Append(log, Launch("execute", ExecuteArgs(option), exitCode)),
                                 Note("empty", option))
           ELSE IF GetNextSubstringFromString(output, option).throws
           THEN /\ pc' = "threw"
                /\ log' = Append(log, Launch("execute", ExecuteArgs(option), exitCode))
                /\ UNCHANGED <<result, updateType, up_type, cmd_output, file_path>>
           ELSE /\ cmd_output' = GetNextSubstringFromString(output, option).fullstr
                /\ pc' = IF cmd_output' = <<wf.installedCriteria>>
                         THEN equal ELSE differs
                /\ log' = Append(Append(log, Launch("execute", ExecuteArgs(option), exitCode)),
                                 Note(IF cmd_output' = <<wf.installedCriteria>>
                                      THEN "equal" ELSE "differs", option))
                /\ result' = HandleExecuteAction(exitCode)
                /\ UNCHANGED <<updateType, up_type, file_path>>

IsInstalledVersion ==
    /\ pc = "is_version"
    /\ VersionQuery(FirstTargetOption(up_type), "is_state",
                    IF up_type = UPDATE_COMMON_BOTH THEN "is_version2" ELSE "is_failed")
    /\ UNCHANGED <<op, wf, update_type, dirExists, sentinels, content, open>>

\* the table applied when the first version equals installedCriteria
IsInstalledTable(exitCode) ==
    CASE exitCode = UPDATER_UPDATE_REBOOT_STATE.INCOMPLETE_APP_FW_UPDATE ->
            Res(ADUC_Result.IsInstalled_MissingCommit, NoExtendedCode)
      [] exitCode = UPDATER_UPDATE_REBOOT_STATE.NO_UPDATE_REBOOT_PENDING ->
            Res(ADUC_Result.IsInstalled_Installed, NoExtendedCode)
      [] exitCode = UPDATER_UPDATE_REBOOT_STATE.INCOMPLETE_APP_UPDATE ->
            Res(ADUC_Result.IsInstalled_MissingCommit, NoExtendedCode)
      [] exitCode = UPDATER_UPDATE_REBOOT_STATE.INCOMPLETE_FW_UPDATE ->
            Res(ADUC_Result.IsInstalled_MissingCommit, NoExtendedCode)
      [] OTHER ->
            Res(ADUC_Result.Failure, ERC.ISINSTALLED_FAILURE_UNKNOWN_STATE)

\* the branches of that table that end without 'goto done': the one of
\* INCOMPLETE_APP_FW_UPDATE, and the one of NO_UPDATE_REBOOT_PENDING for a
\* common-both update
IsInstalledFallsThrough(exitCode, kind) ==
    \/ exitCode = UPDATER_UPDATE_REBOOT_STATE.INCOMPLETE_APP_FW_UPDATE
    \/ /\ exitCode = UPDATER_UPDATE_REBOOT_STATE.NO_UPDATE_REBOOT_PENDING
       /\ kind = UPDATE_COMMON_BOTH

\* a branch that falls through leaves the block of the equal version: the
\* application version comes next for common-both, the reboot state of the
\* differing version for every other kind
IsInstalledState ==
    /\ pc = "is_state"
    /\ \E exitCode \in ExitCodes :
        /\ log' = Append(log, Launch("execute", ExecuteArgs("--update_reboot_state"), exitCode))
        /\ IF IsInstalledFallsThrough(exitCode, up_type)
           THEN /\ pc' = IF up_type = UPDATE_COMMON_BOTH THEN "is_version2" ELSE "is_failed"
                /\ result' = IsInstalledTable(exitCode)
                /\ UNCHANGED <<updateType, up_type, cmd_output, file_path>>
           ELSE Return(IsInstalledTable(exitCode))
    /\ UNCHANGED <<op, wf, update_type, dirExists, sentinels, content, open>>

\* common-both: the application version is queried as well
IsInstalledVersion2 ==
    /\ pc = "is_version2"
    /\ VersionQuery("--application_version", "is_state2", "is_failed")
    /\ UNCHANGED <<op, wf, update_type, dirExists, sentinels, content, open>>

\* the table applied when the application version of a common-both update
\* equals installedCriteria
IsInstalledTable2(exitCode) ==
    CASE exitCode = UPDATER_UPDATE_REBOOT_STATE.INCOMPLETE_APP_UPDATE ->
            Res(ADUC_Result.IsInstalled_MissingCommit, NoExtendedCode)
      [] exitCode = UPDATER_UPDATE_REBOOT_STATE.INCOMPLETE_APP_FW_UPDATE ->
            Res(ADUC_Result.IsInstalled_MissingCommit, NoExtendedCode)
      [] exitCode = UPDATER_UPDATE_REBOOT_STATE.NO_UPDATE_REBOOT_PENDING ->
            Res(ADUC_Result.IsInstalled_Installed, NoExtendedCode)
      [] OTHER ->
            Res(ADUC_Result.Failure, ERC.ISINSTALLED_FAILURE_UNKNOWN_STATE)

IsInstalledState2 ==
    /\ pc = "is_state2"
    /\ \E exitCode \in ExitCodes :
        /\ log' = Append(log, Launch("execute", ExecuteArgs("--update_reboot_state"), exitCode))
        /\ Return(IsInstalledTable2(exitCode))
    /\ UNCHANGED <<op, wf, update_type, dirExists, sentinels, content, open>>

\* the version differs: the reboot state decides; only the path that returns
\* NotInstalled stores the kind with setUpdateType
\* faulty variant: the kind is cached on the path of the failed reboot as well
IsInstalledFailed_AlwaysCaches ==
    /\ pc = "is_failed"
    /\ \E exitCode \in ExitCodes :
        /\ log' = Append(log, Launch("execute", ExecuteArgs("--update_reboot_state"), exitCode))
        /\ IF exitCode \in {UPDATER_UPDATE_REBOOT_STATE.FAILED_APP_UPDATE, UPDATER_UPDATE_REBOOT_STATE.FAILED_FW_UPDATE}
           THEN /\ pc' = "is_commit"
                /\ result' = HandleExecuteAction(exitCode)
                /\ UNCHANGED <<update_type, updateType, up_type, cmd_output, file_path>>
           ELSE IF exitCode = UPDATER_UPDATE_REBOOT_STATE.FW_UPDATE_REBOOT_FAILED
           THEN /\ Return(Res(ADUC_Result.IsInstalled_Installed, NoExtendedCode))
                /\ update_type' = up_type
           ELSE /\ update_type' = up_type
                /\ Return(Res(ADUC_Result.IsInstalled_NotInstalled, NoExtendedCode))
    /\ UNCHANGED <<op, wf, dirExists, sentinels, content, open>>

IsInstalledFailed ==
    /\ pc = "is_failed"
    /\ \E exitCode \in ExitCodes :
        /\ log' = Append(log, Launch("execute", ExecuteArgs("--update_reboot_state"), exitCode))
        /\ IF exitCode \in {UPDATER_UPDATE_REBOOT_STATE.FAILED_APP_UPDATE, UPDATER_UPDATE_REBOOT_STATE.FAILED_FW_UPDATE}
           THEN /\ pc' = "is_commit"
                /\ result' = HandleExecuteAction(exitCode)
                /\ UNCHANGED <<update_type, updateType, up_type, cmd_output, file_path>>
           ELSE IF exitCode = UPDATER_UPDATE_REBOOT_STATE.FW_UPDATE_REBOOT_FAILED
           THEN /\ Return(Res(ADUC_Result.IsInstalled_Installed, NoExtendedCode))
                /\ UNCHANGED update_type
           ELSE /\ update_type' = up_type
                /\ Return(Res(ADUC_Result.IsInstalled_NotInstalled, NoExtendedCode))
    /\ UNCHANGED <<op, wf, dirExists, sentinels, content, open>>

\* the outcome on the exit code of the commit of a failed update
IsInstalledAfterCommit(exitCode) ==
    IF exitCode = UPDATER_COMMIT_STATE.UPDATE_COMMIT_SUCCESSFUL
    THEN Res(ADUC_Result.IsInstalled_Installed, NoExtendedCode)
    ELSE Res(ADUC_Result.Failure, ERC.ISINSTALLED_FAILURE_COMMIT_PREVIOUS_FAILED_UPDATE)

IsInstalledCommit ==
    /\ pc = "is_commit"
    /\ \E exitCode \in ExitCodes :
        /\ log' = Append(log, Launch("execute", ExecuteArgs("--commit_update"), exitCode))
        /\ Return(IsInstalledAfterCommit(exitCode))
    /\ UNCHANGED <<op, wf, update_type, dirExists, sentinels, content, open>>

-----------------------------------------------------------------------------
(* Backup and Restore *)

\* faulty variant: Backup clears the work directory
Backup_Resets ==
    /\ Dispatch("Backup", NoWorkflow)
    /\ log' = <<>>
    /\ Return(Res(ADUC_Result.Backup_Success, NoExtendedCode))
    /\ sentinels' = {}
    /\ content' = NoStamps
    /\ UNCHANGED <<update_type, dirExists, open>>

\* 'ADUC_Result result = { ADUC_Result_Backup_Success }; return result;'
Backup ==
    /\ Dispatch("Backup", NoWorkflow)
    /\ log' = <<>>
    /\ Return(Res(ADUC_Result.Backup_Success, NoExtendedCode))
    /\ UNCHANGED <<update_type, dirExists, sentinels, content, open>>

\* 'ADUC_Result result = { ADUC_Result_Restore_Success_Unsupported };'
Restore ==
    /\ Dispatch("Restore", NoWorkflow)
    /\ log' = <<>>
    /\ Return(Res(ADUC_Result.Restore_Success_Unsupported, NoExtendedCode))
    /\ UNCHANGED <<update_type, dirExists, sentinels, content, open>>

-----------------------------------------------------------------------------
Host == HostTakesResult

Controller == ControllerCreate

Download ==
    \/ DownloadBegin
    \/ DownloadReset
    \/ DownloadOpen
    \/ DownloadWrite
    \/ DownloadWait
    \/ DownloadContent

Install ==
    \/ InstallBegin
    \/ InstallWait
    \/ InstallLaunch
    \/ InstallRemove
    \/ InstallErrorStateOpen
    \/ InstallErrorStateWrite

Apply ==
    \/ ApplyBegin
    \/ ApplyWait

Cancel ==
    \/ CancelBegin
    \/ CancelRollback
    \/ CancelRequery
    \/ CancelCommit

IsInstalled ==
    \/ IsInstalledBegin
    \/ IsInstalledVersion
    \/ IsInstalledState
    \/ IsInstalledVersion2
    \/ IsInstalledState2
    \/ IsInstalledFailed
    \/ IsInstalledCommit

Next ==
    \/ Host
    \/ HostSignalsCancel
    \/ Controller
    \/ Download
    \/ Install
    \/ Apply
    \/ Cancel
    \/ IsInstalled
    \/ Backup
    \/ Restore

Spec == Init /\ [][Next]_vars

NextDownload == Host \/ Controller \/ Download

SpecDownload == Init /\ [][NextDownload]_vars

NextInstall == Host \/ Controller \/ IsInstalled \/ Install

SpecInstall == Init /\ [][NextInstall]_vars

NextApply == Host \/ Controller \/ Apply

SpecApply == Init /\ [][NextApply]_vars

NextPhases == Host \/ Controller \/ Download \/ Install \/ Apply

SpecPhases == Init /\ [][NextPhases]_vars

NextCancel == Host \/ Controller \/ Cancel

SpecCancel == Init /\ [][NextCancel]_vars

NextIsInstalled == Host \/ IsInstalled

SpecIsInstalled == Init /\ [][NextIsInstalled]_vars

\* IsInstalled stores the update kind that a later Download reads
NextCache == Host \/ Controller \/ IsInstalled \/ Download

SpecCache == Init /\ [][NextCache]_vars

\* Backup and Restore on a handler whose work directory and cached update
\* kind are in any state Download and IsInstalled can leave
NextNoOps == Host \/ Controller \/ IsInstalled \/ Download \/ Backup \/ Restore

SpecNoOps == Init /\ [][NextNoOps]_vars

\* every lifecycle operation but Download
NextCalls ==
    Host \/ Controller \/ Install \/ Apply \/ Cancel \/ IsInstalled \/ Backup \/ Restore

SpecCalls == Init /\ [][NextCalls]_vars

\* the handler thread runs whenever it can, the controller goes on creating
\* the sentinels that are missing, the host takes every outcome
Handler == Download \/ Apply \/ Cancel \/ Backup \/ Restore

NextFair == Host \/ Controller \/ Handler

SpecFair ==
    /\ Init
    /\ [][NextFair]_vars
    /\ WF_vars(Handler)
    /\ WF_vars(Controller)
    /\ WF_vars(Host)

(* The shell wrapper: the fus/update tasks of adu-shell.  A run of the     *)
(* wrapper is a process of its own; 'wf' holds its launch arguments,     *)
(* 'result' its task result and 'log' the updater processes it started.  *)

updater_option ==
    [update_install |-> "--update_file",
     commit_update |-> "--commit_update",
     get_update_state |-> "--update_reboot_state",
     rollback_update |-> "--rollback_update",
     update_type |-> "--update_type"]

\* exit status of a task that did not run the updater
EXIT_FAILURE == "EXIT_FAILURE"

\* exit status set when actionMap has no task for the action
ADUSHELL_EXIT_UNSUPPORTED == "ADUSHELL_EXIT_UNSUPPORTED"

\* the parsed command line: the actions of actionMap that are tasks of this
\* file and "other", an action that is no key of actionMap; the target data,
\* and up to three target options
LaunchArguments ==
    {[action |-> a, targetData |-> d, targetOptions |-> o] :
        a \in {"Install", "Execute", "Apply", "Cancel", "other"},
        d \in {"/var/lib/adu/downloads/wf/update.fs"},
        o \in UNION {[1..n -> {"app", "fw", "--update_reboot_state"}] : n \in 0..3}}

\* faulty variant: the first target option is always passed as update type
ShellInstall_AnyType(launchArgs) ==
    [launch |-> TRUE,
     args |-> <<updater_option.update_install, launchArgs.targetData>>
                \o (IF launchArgs.targetOptions # <<>>
                    THEN <<updater_option.update_type, Head(launchArgs.targetOptions)>>
                    ELSE <<>>)]

\* Tasks::FUSUpdate::Install: the argument vector of the updater
ShellInstall(launchArgs) ==
    [launch |-> TRUE,
     args |-> <<updater_option.update_install, launchArgs.targetData>>
                \o (IF /\ launchArgs.targetOptions # <<>>
                       /\ Head(launchArgs.targetOptions) \in {"app", "fw"}
                    THEN <<updater_option.update_type, Head(launchArgs.targetOptions)>>
                    ELSE <<>>)]

CommitUpdate(launchArgs) ==
    [launch |-> TRUE, args |-> <<updater_option.commit_update>>]

\* Tasks::FUSUpdate::Cancel
ShellCancel(launchArgs) ==
    [launch |-> TRUE, args |-> <<updater_option.rollback_update>>]

\* more than two target options are refused before anything is launched
Execute(launchArgs) ==
    IF Len(launchArgs.targetOptions) > 2
    THEN [launch |-> FALSE, args |-> <<>>]
    ELSE [launch |-> TRUE, args |-> launchArgs.targetOptions]

actionMap(launchArgs) ==
    CASE launchArgs.action = "Install" -> ShellInstall(launchArgs)
      [] launchArgs.action = "Execute" -> Execute(launchArgs)
      [] launchArgs.action = "Apply" -> CommitUpdate(launchArgs)
      [] launchArgs.action = "Cancel" -> ShellCancel(launchArgs)

InitShell ==
    /\ pc = "sh_start"
    /\ op = "DoFUSUpdateTask"
    /\ wf \in LaunchArguments
    /\ result = [ExitStatus |-> Indeterminate]
    /\ update_type = Uninitialized
    /\ updateType = ""
    /\ up_type = UPDATE_UNKNOWN
    /\ cmd_output = <<>>
    /\ file_path = ""
    /\ dirExists = TRUE
    /\ sentinels = {}
    /\ content = NoStamps
    /\ open = {}
    /\ log = <<>>

\* 'taskResult = taskProc(launchArgs)' with taskProc still nullptr, after the
\* first catch block has set ADUSHELL_EXIT_UNSUPPORTED: an empty std::function
\* throws std::bad_function_call, which the second catch block turns into
\* EXIT_FAILURE; the call through a null function pointer is undefined and
\* ends the process
CallWithoutTask ==
    {[pc |-> "sh_exit", ExitStatus |-> EXIT_FAILURE],
     [pc |-> "crashed", ExitStatus |-> ADUSHELL_EXIT_UNSUPPORTED]}

\* actionMap.at(launchArgs.action), then the task:
\* taskResult.SetExitStatus(ADUC_LaunchChildProcess(updater_command, args, ...))
DoFUSUpdateTask ==
    /\ pc = "sh_start"
    /\ IF wf.action \notin {"Install", "Execute", "Apply", "Cancel"}
       THEN /\ log' = Append(log, Note("unsupported", wf.action))
            /\ \E after \in CallWithoutTask :
                /\ pc' = after.pc
                /\ result' = [ExitStatus |-> after.ExitStatus]
       ELSE /\ pc' = "sh_exit"
            /\ IF actionMap(wf).launch
               THEN \E exitCode \in ExitCodes :
                       /\ log' = Append(log, Event("launch", "updater", actionMap(wf).args,
                                                   exitCode, FALSE))
                       /\ result' = [ExitStatus |-> exitCode]
               ELSE /\ result' = [ExitStatus |-> EXIT_FAILURE]
                    /\ UNCHANGED log
    /\ UNCHANGED <<op, wf, update_type, updateType, up_type, cmd_output, file_path,
                   dirExists, sentinels, content, open>>

NextShell == DoFUSUpdateTask

SpecShell == InitShell /\ [][NextShell]_vars

(* create_work_dir on its own: called twice on a work directory in any *)
(* state, with nothing written in between                              *)

\* a work directory that is absent, empty, or holds stamps and sentinels
InitReset ==
    /\ pc = "rs_first"
    /\ op = "none"
    /\ wf = NoWorkflow
    /\ result = Res(Indeterminate, Indeterminate)
    /\ update_type = Uninitialized
    /\ updateType = ""
    /\ up_type = UPDATE_UNKNOWN
    /\ cmd_output = <<>>
    /\ file_path = ""
    /\ dirExists \in BOOLEAN
    /\ sentinels \in (IF dirExists THEN SUBSET Sentinels ELSE {{}})
    /\ content \in (IF dirExists THEN [Stamps -> {NoFile, "text"}] ELSE {NoStamps})
    /\ open = {}
    /\ log = <<>>

\* what the directory looked like when create_work_dir was entered
DirectoryState ==
    IF ~dirExists THEN "absent"
    ELSE IF sentinels = {} /\ content = NoStamps THEN "empty"
    ELSE "holding files"

\* one call of create_work_dir(); like in Download, an error of remove_all
\* leaves the call as an exception
ResetCall ==
    /\ pc \in {"rs_first", "rs_second"}
    /\ \/ /\ create_work_dir
          /\ \E caught \in CaughtInReset(dirExists') :
                log' = Append(log, Note("create_work_dir", DirectoryState))
                           \o (IF caught = "" THEN <<>>
                               ELSE <<Note("caught", caught)>>)
          /\ pc' = IF pc = "rs_first" THEN "rs_second" ELSE "rs_done"
       \/ /\ dirExists
          /\ pc' = "threw"
          /\ log' = Append(log, Note("throw", "remove_all"))
          /\ UNCHANGED <<dirExists, sentinels, content>>
    /\ UNCHANGED <<op, wf, result, update_type, updateType, up_type, cmd_output,
                   file_path, open>>

NextReset == ResetCall

SpecReset == InitReset /\ [][NextReset]_vars

\* the phases that wait for a sentinel, with a host that may ask for
\* cancellation during the wait
NextWaits == Host \/ HostSignalsCancel \/ Controller \/ Download \/ Install \/ Apply

SpecWaits == Init /\ [][NextWaits]_vars

-----------------------------------------------------------------------------
(* WriteErrorState on integer codes *)

\* the integer codes of the outcomes handed to WriteErrorState
ErrorCodes == 0..12

NumericOutcomes ==
    {[ResultCode |-> rc, ExtendedResultCode |-> erc] : rc, erc \in ErrorCodes}

\* error_state << error_code.ResultCode; error_state << error_code.ExtendedResultCode;
ErrorStateDigits(error_code) ==
    ToDecimal(error_code.ResultCode) \o ToDecimal(error_code.ExtendedResultCode)

InitErrorState ==
    /\ pc = "es_idle"
    /\ op = "none"
    /\ wf = NoWorkflow
    /\ result = Res(Indeterminate, Indeterminate)
    /\ update_type = Uninitialized
    /\ updateType = ""
    /\ up_type = UPDATE_UNKNOWN
    /\ cmd_output = <<>>
    /\ file_path = ""
    /\ dirExists \in BOOLEAN
    /\ sentinels = {}
    /\ content = NoStamps
    /\ open = {}
    /\ log = <<>>

\* one call of WriteErrorState: std::ofstream truncates the file when it can
\* open it, both codes are streamed and the file is closed; when the file
\* cannot be opened this is logged and the file is left as it was
WriteErrorState ==
    /\ pc \in {"es_idle", "es_written", "es_unopened"}
    /\ \E error_code \in NumericOutcomes, ok \in OpenOutcomes :
        /\ result' = error_code
        /\ IF ok
           THEN /\ content' = [content EXCEPT !["errorState"] = ErrorStateDigits(error_code)]
                /\ pc' = "es_written"
           ELSE /\ pc' = "es_unopened"
                /\ UNCHANGED content
    /\ UNCHANGED <<op, wf, update_type, updateType, up_type, cmd_output, file_path,
                   dirExists, sentinels, open, log>>

NextErrorState == WriteErrorState

SpecErrorState == InitErrorState /\ [][NextErrorState]_vars

-----------------------------------------------------------------------------
(* The content handlers of one update type each: fus/firmware:1 and       *)
(* fus/application:1                                                       *)

\* UPDATER_COMMIT_STATE::SUCCESSFUL, the name these handlers use for the exit
\* code of a successful commit
COMMIT_SUCCESSFUL == "UPDATER_COMMIT_STATE::SUCCESSFUL"

\* the update type a content handler passes to the shell, and the option of
\* its version query
ContentHandlers ==
    [firmware |-> [updateType |-> "fus/firmware:1", option |-> "--firmware_version"],
     application |-> [updateType |-> "fus/application:1",
                      option |-> "--application_version"]]

\* argument vectors of HandleFSUpdateRebootState ("execute"), CommitUpdateState
\* ("apply") and of the install child
ContentArgs(h, action, data) ==
    <<"--update-type", ContentHandlers[h].updateType, "--update-action", action>>
    \o (IF action = "execute" THEN <<"--target-options", "update_state">>
        ELSE IF action = "install" THEN <<"--target-data", data>>
        ELSE <<>>)

\* IsInstalled of a content handler. The captured output is a sequence of
\* characters, the version counting as one; "\n" and "\t" are erased before
\* the comparison. When the version differs the outcome assigned on the
\* reboot state and on the commit is noted and then overwritten: no branch
\* jumps to 'done' and 'result = { ADUC_Result_IsInstalled_NotInstalled }'
\* follows
ContentIsInstalled(h) ==
    \E v \in InstalledCriteria, exitCode \in VersionExitCodes,
       output \in {<<>>, <<"\n">>} \cup {<<w, "\n">> : w \in Versions},
       state \in ExitCodes, commit \in ExitCodes \cup {COMMIT_SUCCESSFUL} :
        LET option == ContentHandlers[h].option
            version == Launch("version", <<option>>, exitCode)
            erased == SelectSeq(output, LAMBDA ch : ch \notin {"\n", "\t"})
            query == Launch("execute", ContentArgs(h, "execute", ""), state)
            apply == Launch("apply", ContentArgs(h, "apply", ""), commit)
            committed ==
                IF commit = COMMIT_SUCCESSFUL
                THEN Res(ADUC_Result.IsInstalled_Installed, NoExtendedCode)
                ELSE Res(ADUC_Result.Failure,
                         ERC.ISINSTALLED_FAILURE_COMMIT_PREVIOUS_FAILED_UPDATE)
            State == UPDATER_UPDATE_REBOOT_STATE
        IN  /\ Dispatch("IsInstalled",
                        [NoWorkflow EXCEPT !.installedCriteria = v,
                                           !.updateTypeToken = ContentHandlers[h].updateType])
            /\ IF exitCode # EXIT_ZERO
               THEN /\ log' = <<version>>
                    /\ Return(Res(ADUC_Result.Failure, exitCode))
               ELSE IF output = <<>>
               THEN /\ log' = <<version, Note("empty", option)>>
                    /\ Return(Res(ADUC_Result.Failure, NoExtendedCode))
               ELSE IF erased = <<v>>
               THEN /\ log' = <<version, Note("equal", option), query>>
                    /\ Return(IF state \in {State.INCOMPLETE_APP_UPDATE,
                                            State.INCOMPLETE_FW_UPDATE}
                              THEN Res(ADUC_Result.IsInstalled_MissingCommit, NoExtendedCode)
                              ELSE IF state = State.NO_UPDATE_REBOOT_PENDING
                              THEN Res(ADUC_Result.IsInstalled_Installed, NoExtendedCode)
                              ELSE Res(ADUC_Result.Failure,
                                       ERC.ISINSTALLED_FAILURE_UNKNOWN_STATE))
               ELSE /\ log' = <<version, Note("differs", option), query>>
                              \o (IF state \in {State.FAILED_APP_UPDATE,
                                                State.FAILED_FW_UPDATE}
                                  THEN <<apply, Note("assigned", committed.ResultCode)>>
                                  ELSE IF state = State.FW_UPDATE_REBOOT_FAILED
                                  THEN <<Note("assigned", ADUC_Result.IsInstalled_Installed)>>
                                  ELSE <<>>)
                    /\ Return(Res(ADUC_Result.IsInstalled_NotInstalled, NoExtendedCode))
            /\ UNCHANGED <<update_type, dirExists, sentinels, content, open>>

FirmwareIsInstalled == ContentIsInstalled("firmware")

ApplicationIsInstalled == ContentIsInstalled("application")

\* the controller of the application handler creates installApplication in
\* the work directory
ControllerCreatesInstallApplication ==
    /\ dirExists
    /\ "installApplication" \notin sentinels
    /\ sentinels' = sentinels \cup {"installApplication"}
    /\ UNCHANGED <<pc, op, wf, result, update_type, updateType, up_type,
                   cmd_output, file_path, dirExists, content, open, log>>

\* Install of the application handler up to the wait; the failures jump to
\* 'done'
ApplicationInstallBegin ==
    \E d \in BOOLEAN, f \in BOOLEAN :
        /\ Dispatch("Install",
                    [NoWorkflow EXCEPT !.workFolderOk = d, !.fileOk = f,
                                       !.updateTypeToken = "fus/application:1"])
        /\ log' = <<>>
        /\ IF ~d
           THEN Return(Res(ADUC_Result.Failure, ERC.INSTALL_FAILURE_CANNOT_OPEN_WORKFOLDER))
           ELSE IF ~f
           THEN Return(Res(ADUC_Result.Failure, ERC.INSTALL_FAILURE_BAD_FILE_ENTITY))
           ELSE /\ pc' = "ai_wait"
                /\ result' = Res(ADUC_Result.Failure, NoExtendedCode)
                /\ UNCHANGED <<updateType, up_type, cmd_output, file_path>>
        /\ UNCHANGED <<update_type, dirExists, sentinels, content, open>>

\* Install of the application handler from the wait on: the install child,
\* after a failure the commit and the failure code assigned on its exit code,
\* after a success the file applicationInstalled, which may fail to be
\* created; then, on either path, 'result = { ADUC_Result_Install_Success }'
ApplicationInstallRun ==
    /\ pc = "ai_wait"
    /\ "installApplication" \in sentinels
    /\ \E exitCode \in ExitCodes, commit \in ExitCodes \cup {COMMIT_SUCCESSFUL},
          created \in BOOLEAN :
        LET install == Launch("install",
                              ContentArgs("application", "install", InstallData(wf)),
                              exitCode)
            apply == Launch("apply", ContentArgs("application", "apply", ""), commit)
            assigned ==
                IF commit = COMMIT_SUCCESSFUL
                THEN ERC.INSTALL_FAILURE_APPLICATION_UPDATE
                ELSE ERC.INSTALL_FAILURE_COMMIT_UPDATE
        IN  IF exitCode # UPDATER_APPLICATION_STATE.UPDATE_SUCCESSFUL
            THEN /\ log' = log \o <<install, apply, Note("assigned", assigned)>>
                 /\ UNCHANGED sentinels
            ELSE /\ log' = Append(log, install)
                 /\ sentinels' = IF created
                                 THEN sentinels \cup {"applicationInstalled"}
                                 ELSE sentinels
    /\ Return(Res(ADUC_Result.Install_Success, NoExtendedCode))
    /\ UNCHANGED <<op, wf, update_type, dirExists, content, open>>

NextContent ==
    \/ Host
    \/ ControllerCreatesInstallApplication
    \/ FirmwareIsInstalled
    \/ ApplicationIsInstalled
    \/ ApplicationInstallBegin
    \/ ApplicationInstallRun

SpecContent == Init /\ [][NextContent]_vars

-----------------------------------------------------------------------------
(* Properties *)

Returned(name) == pc = "returned" /\ op = name

Before(l, i, ev, what) == \E j \in 1..(i - 1) : l[j].ev = ev /\ l[j].what = what

\* C1 as stated: in Download, Install and Apply no child process is launched
\* before the sentinel of that phase exists in the work directory.
C1_AsStated ==
    op \in {"Download", "Install", "Apply"} =>
        \A i \in Events(log, "launch") : log[i].armed

\* C1 amended: in Install the child process, and in Download the content
\* downloader, is started only while the sentinel of the phase exists, and
\* Download launches no child process; Apply launches exactly one child
\* process, the reboot-state query, as its first step and before it looks at
\* applyUpdate, and it is the reboot request that waits for applyUpdate.
C1_GatedLaunch ==
    /\ op = "Install" =>
          \A i \in Events(log, "launch") :
              /\ log[i].armed
              /\ log[i].what = "install"
              /\ Before(log, i, "observed", "installUpdate")
    /\ op = "Download" =>
          /\ Events(log, "launch") = {}
          /\ \A i \in Events(log, "download") :
                 log[i].armed /\ Before(log, i, "observed", "downloadUpdate")
    /\ op = "Apply" =>
          /\ Events(log, "launch") = {1}
          /\ log[1].args = ExecuteArgs("--update_reboot_state")
          /\ \A i \in Events(log, "reboot") :
                 log[i].armed /\ Before(log, i, "observed", "applyUpdate")

\* an Install that found installUpdate and ran its child to success
C1_Witness ==
    /\ Returned("Install")
    /\ Happened(log, "observed", "installUpdate") # {}
    /\ Launched(log, "install") # {}
    /\ result.ResultCode = ADUC_Result.Install_Success

\* C2: in Download the stamps update_version, update_type and update_size
\* are written and closed before the wait for downloadUpdate starts,
\* update_location is opened only after downloadUpdate has been observed, and
\* the downloader is called only after update_location has been closed.
C2_DownloadOrder ==
    op = "Download" =>
        /\ pc = "dl_wait" =>
              \A s \in {"update_version", "update_type", "update_size"} :
                  /\ s \notin open
                  /\ content[s] = StampText(s)
                  /\ Happened(log, "close", s) # {}
        /\ \A i \in Happened(log, "observed", "downloadUpdate") :
              /\ log[i].armed
              /\ \A s \in {"update_version", "update_type", "update_size"} :
                     Before(log, i, "close", s)
        /\ \A i \in Happened(log, "open", "update_location") :
              Before(log, i, "observed", "downloadUpdate")
        /\ \A i \in Events(log, "download") :
              /\ Before(log, i, "close", "update_location")
              /\ "update_location" \notin open
              /\ content["update_location"] = UpdateFilename(wf)

\* a Download that went all the way to the downloader
C2_Witness ==
    /\ Returned("Download")
    /\ Events(log, "download") # {}
    /\ result.ResultCode = ADUC_Result.Download_Success

\* exit code of the install child of the call, "" when none was launched
InstallExit ==
    IF Launched(log, "install") = {} THEN ""
    ELSE log[CHOOSE i \in Launched(log, "install") : TRUE].exit

\* C3: Install returns Install_Success exactly when the install child exits
\* with one of the three UPDATE_SUCCESSFUL codes, whatever the update kind;
\* every other exit code gives result code Failure.
C3_InstallSuccess ==
    Returned("Install") =>
        /\ result.ResultCode = ADUC_Result.Install_Success
               <=> InstallExit \in InstallSuccessCodes
        /\ InstallExit \notin InstallSuccessCodes
               => result.ResultCode = ADUC_Result.Failure
        /\ Cardinality(Launched(log, "install")) <= 1

\* an application update whose child exits with the firmware success code
C3_Witness ==
    /\ Returned("Install")
    /\ wf.typeName = "application"
    /\ InstallExit = UPDATER_FIRMWARE_STATE.UPDATE_SUCCESSFUL
    /\ result.ResultCode = ADUC_Result.Install_Success

\* extended code the Install-phase table gives a failed install of a kind
InstallFailureCode(kind) ==
    IF kind \in {UPDATE_FIRMWARE, UPDATE_COMMON_FIRMWARE}
    THEN ERC.INSTALL_FAILURE_FIRMWARE_UPDATE
    ELSE IF kind \in {UPDATE_APPLICATION, UPDATE_COMMON_APPLICATION}
    THEN ERC.INSTALL_FAILURE_APPLICATION_UPDATE
    ELSE ERC.INSTALL_FAILURE_BAD_FILE_ENTITY

\* C4: for every non-success exit code of the install child the extended
\* code of the Failure is the one the table gives for the kind named by
\* handler_properties.updateType of this Install call.
C4_FailureCodeByKind ==
    (Returned("Install") /\ InstallExit # "" /\ InstallExit \notin InstallSuccessCodes) =>
        result = Res(ADUC_Result.Failure,
                     InstallFailureCode(getUpdateTypeByName(wf.typeName)))

\* C5 as stated: at every return of Install errorState holds the returned
\* outcome, the sentinel installUpdate is absent when the result is not
\* Install_Success and present when it is.
C5_AsStated ==
    Returned("Install") =>
        /\ content["errorState"] = ErrorStateText(result)
        /\ result.ResultCode # ADUC_Result.Install_Success
               => "installUpdate" \notin sentinels
        /\ result.ResultCode = ADUC_Result.Install_Success
               => "installUpdate" \in sentinels

C5_AtReturn ==
    Returned("Install") =>
        /\ \/ /\ Happened(log, "close", "errorState") # {}
              /\ content["errorState"] = ErrorStateText(result)
              /\ "errorState" \notin open
           \/ /\ Happened(log, "open-failed", "errorState") # {}
              /\ Happened(log, "open", "errorState") = {}
        /\ result.ResultCode # ADUC_Result.Install_Success =>
              \E i \in Happened(log, "remove", "installUpdate") :
                  \A j \in Events(log, "open") \cup Events(log, "open-failed") : i < j
        /\ result.ResultCode = ADUC_Result.Install_Success =>
              /\ Happened(log, "remove", "installUpdate") = {}
              /\ "installUpdate" \in sentinels

C5_RemovalStep ==
    (pc = "in_done" /\ pc' = "in_errorstate") =>
        /\ result' = result
        /\ IF result.ResultCode # ADUC_Result.Install_Success
           THEN "installUpdate" \notin sentinels'
           ELSE sentinels' = sentinels

C5_NoChildUntilRearmed ==
    (pc = "in_wait" /\ pc' = "in_launch") => "installUpdate" \in sentinels

\* C5 amended: on every return path Install calls WriteErrorState with the
\* returned outcome, which leaves that outcome in errorState whenever the
\* file can be opened; when the result is not Install_Success the handler
\* removes installUpdate before it writes errorState, so the sentinel is gone
\* until the controller creates it again and a retried Install launches no
\* child before that; on Install_Success the handler leaves the sentinel.
C5_ErrorStateAndRearm ==
    /\ []C5_AtReturn
    /\ [][C5_RemovalStep /\ C5_NoChildUntilRearmed]_vars

\* a failed install child: the sentinel it was launched on is gone and
\* errorState holds the failure
C5_Witness ==
    /\ Returned("Install")
    /\ InstallExit = EXIT_OTHER
    /\ "installUpdate" \notin sentinels
    /\ content["errorState"] = ErrorStateText(result)
    /\ result.ResultCode = ADUC_Result.Failure

\* exit code of the first child of the call, the reboot-state query of
\* Apply and Cancel
FirstExit == IF log = <<>> THEN "" ELSE log[1].exit

\* C6: in Apply, on UPDATE_REBOOT_PENDING the handler waits until
\* applyUpdate exists, then requests the reboot exactly once and returns
\* Apply_RequiredImmediateReboot; no reboot is requested while applyUpdate is
\* absent.
C6_RebootAfterApplyUpdate ==
    op = "Apply" =>
        /\ \A i \in Events(log, "reboot") :
              /\ log[i].armed
              /\ \E j \in Happened(log, "observed", "applyUpdate") :
                     j < i /\ log[j].armed
        /\ pc = "ap_wait" => Events(log, "reboot") = {}
        /\ (pc = "returned" /\ FirstExit = UPDATER_UPDATE_REBOOT_STATE.UPDATE_REBOOT_PENDING) =>
              /\ Cardinality(Events(log, "reboot")) = 1
              /\ result = Res(ADUC_Result.Apply_RequiredImmediateReboot, NoExtendedCode)

C6_Witness ==
    /\ Returned("Apply")
    /\ FirstExit = UPDATER_UPDATE_REBOOT_STATE.UPDATE_REBOOT_PENDING
    /\ Events(log, "reboot") # {}

\* C7: in Apply, NO_UPDATE_REBOOT_PENDING and UPDATE_NOT_NEEDED give
\* Apply_Success with no wait on a sentinel and no reboot request; every
\* exit code outside the six handled ones gives
\* Failure(APPLY_FAILURE_UNKNOWN_ERROR).
C7_ApplyTable ==
    op = "Apply" =>
        /\ pc = "ap_wait" => FirstExit \in ApplyWaitStates
        /\ (pc = "returned" /\ FirstExit \in {UPDATER_UPDATE_REBOOT_STATE.NO_UPDATE_REBOOT_PENDING, UPDATER_COMMIT_STATE.UPDATE_NOT_NEEDED}) =>
              /\ result = Res(ADUC_Result.Apply_Success, NoExtendedCode)
              /\ Len(log) = 1
        /\ (pc = "returned" /\ FirstExit \notin ApplyWaitStates
                    \cup {UPDATER_UPDATE_REBOOT_STATE.NO_UPDATE_REBOOT_PENDING, UPDATER_COMMIT_STATE.UPDATE_NOT_NEEDED}) =>
              /\ result = Res(ADUC_Result.Failure, ERC.APPLY_FAILURE_UNKNOWN_ERROR)
              /\ Len(log) = 1

\* Apply returned success on UPDATE_NOT_NEEDED with applyUpdate absent
C7_Witness ==
    /\ Returned("Apply")
    /\ FirstExit = UPDATER_COMMIT_STATE.UPDATE_NOT_NEEDED
    /\ "applyUpdate" \notin sentinels
    /\ result.ResultCode = ADUC_Result.Apply_Success

IsStateQuery(e) ==
    e.ev = "launch" /\ e.what = "execute" /\ e.args = ExecuteArgs("--update_reboot_state")

IsCommit(e) ==
    e.ev = "launch" /\ e.what = "execute" /\ e.args = ExecuteArgs("--commit_update")

IsRollback(e) == e.ev = "launch" /\ e.what = "cancel" /\ e.args = CancelArgs

\* C8: Cancel on INCOMPLETE_APP_UPDATE launches the rollback; when it exits
\* with UPDATE_ROLLBACK_SUCCESSFUL the reboot state is read again and
\* ROLLBACK_FW_REBOOT_PENDING gives a reboot request and
\* Cancel_RequiredImmediateReboot, NO_UPDATE_REBOOT_PENDING gives
\* Cancel_Success, anything else Failure(CANCEL_NOT_ALLOWED_STATE_ERROR); any
\* other rollback exit code gives Failure(CANCEL_ROLLBACK_FIRMWARE_ERROR)
\* with no second state query and no reboot request.
C8_CancelRollback ==
    (Returned("Cancel") /\ FirstExit = UPDATER_UPDATE_REBOOT_STATE.INCOMPLETE_APP_UPDATE) =>
        /\ Len(log) >= 2
        /\ IsStateQuery(log[1])
        /\ IsRollback(log[2])
        /\ IF log[2].exit = UPDATER_UPDATE_ROLLBACK_STATE.UPDATE_ROLLBACK_SUCCESSFUL
           THEN /\ Len(log) >= 3
                /\ IsStateQuery(log[3])
                /\ CASE log[3].exit = UPDATER_UPDATE_REBOOT_STATE.ROLLBACK_FW_REBOOT_PENDING ->
                          /\ result = Res(ADUC_Result.Cancel_RequiredImmediateReboot, NoExtendedCode)
                          /\ Len(log) = 4
                          /\ log[4].ev = "reboot"
                     [] log[3].exit = UPDATER_UPDATE_REBOOT_STATE.NO_UPDATE_REBOOT_PENDING ->
                          /\ result = Res(ADUC_Result.Cancel_Success, NoExtendedCode)
                          /\ Len(log) = 3
                     [] OTHER ->
                          /\ result = Res(ADUC_Result.Failure, ERC.CANCEL_NOT_ALLOWED_STATE_ERROR)
                          /\ Len(log) = 3
           ELSE /\ result = Res(ADUC_Result.Failure, ERC.CANCEL_ROLLBACK_FIRMWARE_ERROR)
                /\ Len(log) = 2

\* the rollback succeeded and left a firmware rollback pending
C8_Witness ==
    /\ Returned("Cancel")
    /\ FirstExit = UPDATER_UPDATE_REBOOT_STATE.INCOMPLETE_APP_UPDATE
    /\ result.ResultCode = ADUC_Result.Cancel_RequiredImmediateReboot

C10_CancelNothingToDo ==
    op = "Cancel" =>
        /\ (pc \in {"ca_rollback", "ca_requery"}) => FirstExit = UPDATER_UPDATE_REBOOT_STATE.INCOMPLETE_APP_UPDATE
        /\ pc = "ca_commit" => FirstExit = UPDATER_UPDATE_REBOOT_STATE.ROLLBACK_FW_REBOOT_PENDING
        /\ (pc = "returned" /\ FirstExit = UPDATER_UPDATE_REBOOT_STATE.NO_UPDATE_REBOOT_PENDING) =>
              /\ result = Res(ADUC_Result.Failure_Cancelled, NoExtendedCode)
              /\ Len(log) = 1
        /\ (pc = "returned" /\ FirstExit \notin {UPDATER_UPDATE_REBOOT_STATE.INCOMPLETE_APP_UPDATE,
                    UPDATER_UPDATE_REBOOT_STATE.ROLLBACK_FW_REBOOT_PENDING, UPDATER_UPDATE_REBOOT_STATE.NO_UPDATE_REBOOT_PENDING}) =>
              /\ result = Res(ADUC_Result.Failure, ERC.CANCEL_NOT_ALLOWED_STATE_ERROR)
              /\ Len(log) = 1

\* Cancel refused on an incomplete firmware update
C10_Witness ==
    /\ Returned("Cancel")
    /\ FirstExit = UPDATER_UPDATE_REBOOT_STATE.INCOMPLETE_FW_UPDATE
    /\ result = Res(ADUC_Result.Failure, ERC.CANCEL_NOT_ALLOWED_STATE_ERROR)

\* kind named by handler_properties.updateType of the call
CallKind == getUpdateTypeByName(wf.typeName)

\* positions of the version comparisons of the call
Comparisons(l) == Events(l, "equal") \cup Events(l, "differs")

\* position of the last version comparison of the call, 0 when there is none
LastComparison(l) ==
    IF Comparisons(l) = {} THEN 0
    ELSE CHOOSE i \in Comparisons(l) : \A j \in Comparisons(l) : j <= i

\* the version-equal table of the IsInstalled mapping
VersionEqualOutcome(state) ==
    CASE state = UPDATER_UPDATE_REBOOT_STATE.NO_UPDATE_REBOOT_PENDING ->
            Res(ADUC_Result.IsInstalled_Installed, NoExtendedCode)
      [] state \in {UPDATER_UPDATE_REBOOT_STATE.INCOMPLETE_FW_UPDATE,
                    UPDATER_UPDATE_REBOOT_STATE.INCOMPLETE_APP_UPDATE,
                    UPDATER_UPDATE_REBOOT_STATE.INCOMPLETE_APP_FW_UPDATE} ->
            Res(ADUC_Result.IsInstalled_MissingCommit, NoExtendedCode)
      [] OTHER ->
            Res(ADUC_Result.Failure, ERC.ISINSTALLED_FAILURE_UNKNOWN_STATE)

\* C11: IsInstalled for a kind other than common-both whose queried version
\* equals installedCriteria returns what the version-equal table gives for
\* the reboot state it read (Installed on NO_UPDATE_REBOOT_PENDING,
\* MissingCommit on the three incomplete states, otherwise
\* Failure(ISINSTALLED_FAILURE_UNKNOWN_STATE)) and issues no commit.
C11_VersionEqualTable ==
    (/\ Returned("IsInstalled")
     /\ CallKind \notin {UPDATE_COMMON_BOTH, UPDATE_UNKNOWN}
     /\ Len(log) >= 3
     /\ log[2].ev = "equal") =>
        /\ IsStateQuery(log[3])
        /\ result = VersionEqualOutcome(log[3].exit)
        /\ \A i \in Events(log, "launch") : ~IsCommit(log[i])

IsVersionQuery(e, option) ==
    e.ev = "launch" /\ e.what = "execute" /\ e.args = ExecuteArgs(option)

\* C12: for common-both the application version is queried only after the
\* firmware check has given Installed (firmware version equal and
\* NO_UPDATE_REBOOT_PENDING), so IsInstalled returns Installed through the
\* version-equal table only when both versions equal installedCriteria.
C12_ApplicationAfterFirmware ==
    (op = "IsInstalled" /\ CallKind = UPDATE_COMMON_BOTH) =>
        /\ \A i \in 1..Len(log) :
              IsVersionQuery(log[i], "--application_version") =>
                  /\ i = 4
                  /\ log[2] = Note("equal", "--firmware_version")
                  /\ IsStateQuery(log[3])
                  /\ log[3].exit = UPDATER_UPDATE_REBOOT_STATE.NO_UPDATE_REBOOT_PENDING
        /\ (/\ pc = "returned"
            /\ result.ResultCode = ADUC_Result.IsInstalled_Installed
            /\ LastComparison(log) # 0
            /\ LastComparison(log) = Len(log) - 1
            /\ log[LastComparison(log)].ev = "equal") =>
              /\ Happened(log, "equal", "--firmware_version") # {}
              /\ Happened(log, "equal", "--application_version") # {}

\* C13: for common-both the check of the application version applies the
\* table of the firmware check again: whatever reboot state is read after
\* an equal application version, the outcome is the one the first table
\* gives for that state.
C13_SameTableTwice ==
    (/\ Returned("IsInstalled")
     /\ CallKind = UPDATE_COMMON_BOTH
     /\ LastComparison(log) # 0
     /\ LastComparison(log) = Len(log) - 1
     /\ log[LastComparison(log)] = Note("equal", "--application_version")) =>
        /\ IsStateQuery(log[Len(log)])
        /\ result = IsInstalledTable(log[Len(log)].exit)

\* the version-differs table of the IsInstalled mapping; 'commit' is the exit
\* code of the commit, "" when none was issued
VersionDiffersOutcome(state, commit) ==
    CASE state \in {UPDATER_UPDATE_REBOOT_STATE.FAILED_APP_UPDATE,
                    UPDATER_UPDATE_REBOOT_STATE.FAILED_FW_UPDATE} ->
            IF commit = UPDATER_COMMIT_STATE.UPDATE_COMMIT_SUCCESSFUL
            THEN Res(ADUC_Result.IsInstalled_Installed, NoExtendedCode)
            ELSE Res(ADUC_Result.Failure,
                     ERC.ISINSTALLED_FAILURE_COMMIT_PREVIOUS_FAILED_UPDATE)
      [] state = UPDATER_UPDATE_REBOOT_STATE.FW_UPDATE_REBOOT_FAILED ->
            Res(ADUC_Result.IsInstalled_Installed, NoExtendedCode)
      [] OTHER ->
            Res(ADUC_Result.IsInstalled_NotInstalled, NoExtendedCode)

\* C14: when the checked version differs from installedCriteria (for
\* common-both: the application version), FAILED_APP_UPDATE and
\* FAILED_FW_UPDATE issue a commit and give Installed when it exits with
\* UPDATE_COMMIT_SUCCESSFUL and
\* Failure(ISINSTALLED_FAILURE_COMMIT_PREVIOUS_FAILED_UPDATE) otherwise,
\* FW_UPDATE_REBOOT_FAILED gives Installed, every other state NotInstalled;
\* and IsInstalled issues a commit in no other situation.
C14_VersionDiffersTable ==
    op = "IsInstalled" =>
        /\ (/\ pc = "returned"
            /\ LastComparison(log) # 0
            /\ log[LastComparison(log)].ev = "differs"
            /\ CallKind = UPDATE_COMMON_BOTH
                   => log[LastComparison(log)].what = "--application_version") =>
              LET q == LastComparison(log) + 1
                  failed == log[q].exit \in
                               {UPDATER_UPDATE_REBOOT_STATE.FAILED_APP_UPDATE,
                                UPDATER_UPDATE_REBOOT_STATE.FAILED_FW_UPDATE}
              IN  /\ IsStateQuery(log[q])
                  /\ Len(log) = IF failed THEN q + 1 ELSE q
                  /\ failed => IsCommit(log[q + 1])
                  /\ result = VersionDiffersOutcome(log[q].exit,
                                  IF failed THEN log[q + 1].exit ELSE "")
        /\ \A i \in 1..Len(log) :
              IsCommit(log[i]) =>
                  /\ i >= 3
                  /\ IsStateQuery(log[i - 1])
                  /\ log[i - 1].exit \in {UPDATER_UPDATE_REBOOT_STATE.FAILED_APP_UPDATE,
                                         UPDATER_UPDATE_REBOOT_STATE.FAILED_FW_UPDATE}
                  /\ log[i - 2].ev = "differs"

\* the call was made without handler_properties.updateType
MissingUpdateType == op \in {"Install", "IsInstalled"} /\ wf.typeName = ""

\* C15 as stated: Install and IsInstalled called without updateType return
\* Failure(MISSING_UPDATE_TYPE_PROPERTY), launch no child process and wait
\* on no sentinel.
C15_AsStated ==
    MissingUpdateType =>
        /\ Events(log, "launch") = {}
        /\ Events(log, "observed") = {}
        /\ pc \notin SentinelWaits
        /\ pc = "returned" =>
              result = Res(ADUC_Result.Failure, ERC.MISSING_UPDATE_TYPE_PROPERTY)

\* C15 amended: Install and IsInstalled called without updateType launch no
\* child process and wait on no sentinel, and every outcome they return is a
\* Failure; its extended code is MISSING_UPDATE_TYPE_PROPERTY, except that
\* Install checks the work folder and the file entity first and reports
\* INSTALL_FAILURE_CANNOT_OPEN_WORKFOLDER or INSTALL_FAILURE_BAD_FILE_ENTITY
\* when one of them fails.
C15_MissingUpdateType ==
    MissingUpdateType =>
        /\ Events(log, "launch") = {}
        /\ Events(log, "observed") = {}
        /\ pc \notin SentinelWaits
        /\ pc = "returned" =>
              result = Res(ADUC_Result.Failure,
                           IF op = "Install" /\ ~wf.workFolderOk
                           THEN ERC.INSTALL_FAILURE_CANNOT_OPEN_WORKFOLDER
                           ELSE IF op = "Install" /\ ~wf.fileOk
                           THEN ERC.INSTALL_FAILURE_BAD_FILE_ENTITY
                           ELSE ERC.MISSING_UPDATE_TYPE_PROPERTY)

\* an Install without updateType returned while installUpdate had never
\* been created
C15_Witness ==
    /\ Returned("Install")
    /\ wf.typeName = ""
    /\ wf.workFolderOk /\ wf.fileOk
    /\ result = Res(ADUC_Result.Failure, ERC.MISSING_UPDATE_TYPE_PROPERTY)
    /\ sentinels = {}

\* what the work directory holds
WorkDir == <<dirExists, sentinels, content, open>>

C17_ResetStep ==
    (pc = "dl_reset" /\ pc' = "dl_open") =>
        /\ sentinels' = {}
        /\ content' = NoStamps

\* in a Download every stamp of the directory was opened by this call, and
\* each was opened after the reset
C17_OnlyOwnFiles ==
    (op = "Download" /\ Happened(log, "reset", "") # {}) =>
        /\ \A s \in Stamps : content[s] # NoFile => Happened(log, "open", s) # {}
        /\ \A i \in Events(log, "open") : Before(log, i, "reset", "")

\* C17: every Download that passes the input validation removes all stamps,
\* errorState and all sentinels of the work directory before it writes its
\* first stamp; afterwards the directory holds only stamps this Download
\* created (and sentinels the controller created after the reset).
C17_ResetBeforeStamps ==
    /\ []C17_OnlyOwnFiles
    /\ [][C17_ResetStep]_vars
    /\ [](op = "Download" => \A i \in Events(log, "open") : Before(log, i, "reset", ""))

\* a Download waits for downloadUpdate after the reset with its three stamps
\* written and no update_location of an earlier cycle
C17_Witness ==
    /\ op = "Download"
    /\ pc = "dl_wait"
    /\ Happened(log, "reset", "") # {}
    /\ content["update_version"] = wf.installedCriteria
    /\ content["update_location"] = NoFile
    /\ content["errorState"] = NoFile

\* C18: no stamp is visible in the work directory before it has been fully
\* written and closed: a stamp that exists is closed and holds its complete
\* text, never an empty one.
C18_ClosedBeforeVisible ==
    \A s \in Stamps :
        content[s] # NoFile => (s \notin open /\ content[s] # Empty)

\* C19: a sentinel wait that the host asks to cancel ends, the phase returns
\* Failure_Cancelled and errorState is written before the return.
C19_CancelledWait ==
    (pc = "returned" /\ Happened(log, "cancel", "host") # {}) =>
        /\ result.ResultCode = ADUC_Result.Failure_Cancelled
        /\ Happened(log, "close", "errorState") # {}
        /\ content["errorState"] = ErrorStateText(result)

\* C20: every lifecycle call ends by returning an outcome; no exception
\* leaves the handler.
C20_NoExceptionEscapes == pc # "threw"

\* <work_folder>/<target_filename> of a workflow
PathOf(w) == w.workFolder \o "/" \o w.targetFilename

\* C21: the path Download writes to the update_location stamp is
\* <work_folder>/<target_filename>, and the Install of that workflow passes
\* the same path as target data to the install child process.
C21_SamePath ==
    /\ (op = "Download" /\ Happened(log, "close", "update_location") # {}) =>
           content["update_location"] = PathOf(wf)
    /\ op = "Install" =>
           \A i \in Launched(log, "install") :
               /\ log[i].args[5] = "--target-data"
               /\ log[i].args[6] = PathOf(wf)
               /\ content["update_location"] \notin {NoFile, Empty} =>
                      log[i].args[6] = content["update_location"]

\* an Install launched its child with the path that the Download before it
\* left in update_location
C21_Witness ==
    /\ Returned("Install")
    /\ content["update_location"] = "/var/lib/adu/downloads/wf/update.fs"
    /\ \E i \in Launched(log, "install") :
           log[i].args[6] = "/var/lib/adu/downloads/wf/update.fs"

\* C22: the update_type stamp written by Download holds the canonical name
\* of the update kind of the workflow being downloaded, whatever lifecycle
\* calls came before this Download on the handler instance.
C22_TypeStampOfWorkflow ==
    (op = "Download" /\ Happened(log, "close", "update_type") # {}) =>
        /\ getUpdateTypeByName(wf.typeName) \in IndexedKinds
        /\ content["update_type"] =
               update_type_names[getUpdateTypeByName(wf.typeName)]

\* exit codes of the child processes of a call, in the order of their launch
Exits(l) ==
    LET launches == SelectSeq(l, LAMBDA e : e.ev = "launch")
    IN  [i \in 1..Len(launches) |-> launches[i].exit]

\* the outcome of Install, Apply and Cancel computed from the phase, the
\* workflow of the call (which names the update kind) and the exit codes the
\* updater returned in that call, and from nothing else
OutcomeOf(phase, input, exits) ==
    CASE phase = "Install" ->
            IF InstallPrecheck(input).ExtendedResultCode # NoExtendedCode
            THEN InstallPrecheck(input)
            ELSE InstallOutcome(exits[1], getUpdateTypeByName(input.typeName))
      [] phase = "Apply" ->
            IF exits[1] \in ApplyWaitStates
            THEN ApplyAfterWait(HandleExecuteAction(exits[1])).result
            ELSE ApplyOutcome(exits[1])
      [] phase = "Cancel" ->
            IF CancelBranch(exits[1]).pc = "returned"
            THEN CancelBranch(exits[1]).result
            ELSE IF CancelBranch(exits[1]).pc = "ca_commit"
            THEN CancelAfterCommit(exits[2])
            ELSE IF exits[2] # UPDATER_UPDATE_ROLLBACK_STATE.UPDATE_ROLLBACK_SUCCESSFUL
            THEN Res(ADUC_Result.Failure, ERC.CANCEL_ROLLBACK_FIRMWARE_ERROR)
            ELSE CancelAfterRollback(exits[3]).result

\* C23: the outcome of a lifecycle phase is a function of the phase, the
\* update kind and the updater results seen in that call; the lifecycle calls
\* made earlier on the handler instance have no influence on it.
C23_OutcomeByInputs ==
    (pc = "returned" /\ op \in {"Install", "Apply", "Cancel"}) =>
        result = OutcomeOf(op, wf, Exits(log))

\* a step of the handler thread, and a step made while the handler stands
\* still (the controller's)
HandlerStep == pc' # pc

\* the controller creates sentinels and touches nothing else
ControllerOnlySentinels ==
    pc' = pc =>
        /\ sentinels \subseteq sentinels'
        /\ content' = content
        /\ open' = open
        /\ dirExists' = dirExists

\* C24 as stated: the handler creates, modifies and deletes only stamp files
\* and the controller only sentinels; no step of the handler creates, changes
\* or removes a sentinel.
C24_AsStated ==
    [][/\ HandlerStep => sentinels' = sentinels
       /\ ControllerOnlySentinels]_vars

\* C24 amended: the handler creates and modifies only stamp files and never
\* creates a sentinel, and the controller only creates sentinels; the handler
\* removes sentinels in two places only: the reset of Download, which removes
\* the work directory with what it holds, and Install, which removes
\* installUpdate when its outcome is not Install_Success.
C24_RolePartition ==
    [][/\ HandlerStep =>
              /\ sentinels' \subseteq sentinels
              /\ sentinels' # sentinels =>
                     \/ pc = "dl_reset"
                     \/ /\ pc = "in_done"
                        /\ result.ResultCode # ADUC_Result.Install_Success
                        /\ sentinels' = sentinels \ {"installUpdate"}
       /\ ControllerOnlySentinels]_vars

\* a failed Install has removed installUpdate and left downloadUpdate alone
C24_Witness ==
    /\ Returned("Install")
    /\ result.ResultCode = ADUC_Result.Failure
    /\ Happened(log, "remove", "installUpdate") # {}
    /\ Happened(log, "observed", "installUpdate") # {}
    /\ sentinels = {"downloadUpdate"}

\* an update-type token <provider>/<name>:<ver> split at its colon
ParseUpdateType(token) ==
    CASE token = "fus/update:1" -> [ok |-> TRUE, version |-> 1]
      [] token = "fus/update:2" -> [ok |-> TRUE, version |-> 2]
      [] OTHER -> [ok |-> FALSE, version |-> 0]

\* C25: Download validates the update-type token before it touches the work
\* directory: a token that cannot be parsed as <name>:<ver> gives Failure with
\* DOWNLOAD_FAILURE_UNKNOW_UPDATE_VERSION, a version other than 1 Failure with
\* DOWNLOAD_FAILURE_WRONG_UPDATE_VERSION, in both cases with no reset, no
\* stamp written and no downloader call.
C25_TokenValidated ==
    (/\ op = "Download"
     /\ ~ParseUpdateType(wf.updateTypeToken).ok
            \/ ParseUpdateType(wf.updateTypeToken).version # 1) =>
        /\ log = <<>>
        /\ pc \in {"dl_reset", "returned"}
        /\ pc = "returned" =>
               result = Res(ADUC_Result.Failure,
                            IF ~ParseUpdateType(wf.updateTypeToken).ok
                            THEN ERC.DOWNLOAD_FAILURE_UNKNOW_UPDATE_VERSION
                            ELSE ERC.DOWNLOAD_FAILURE_WRONG_UPDATE_VERSION)

\* C26: a filesystem error while the reset recreates the work directory does
\* not end Download at that point; it surfaces at the next stamp write:
\* Download returns Failure with DOWNLOAD_FAILURE_CREATE_FAILED_UPDATE_VERSION
\* and never reaches the wait for downloadUpdate.
C26_RecreateFailureSurfaces ==
    (op = "Download" /\ Events(log, "caught") # {}) =>
        /\ pc \in {"dl_open", "returned"}
        /\ pc = "dl_open" => file_path = "update_version"
        /\ pc = "returned" =>
               result = Res(ADUC_Result.Failure, CreateFailedCode("update_version"))
        /\ Happened(log, "open", "update_version") = {}

\* the directory exists and holds nothing
ExistingEmpty == dirExists /\ sentinels = {} /\ content = NoStamps

IsAnyVersionQuery(e) ==
    IsVersionQuery(e, "--firmware_version") \/ IsVersionQuery(e, "--application_version")

\* C28: in IsInstalled a version query that exits non-zero gives Failure with
\* the exit code of the child as extended code, and a version query that
\* exits with 0 and an empty output gives Failure; in both cases IsInstalled
\* returns without a reboot-state query or a commit after it.
C28_VersionQueryFails ==
    op = "IsInstalled" =>
        /\ \A i \in 1..Len(log) :
               (IsAnyVersionQuery(log[i]) /\ log[i].exit # EXIT_ZERO) =>
                   /\ i = Len(log)
                   /\ pc = "returned"
                   /\ result = Res(ADUC_Result.Failure, log[i].exit)
        /\ \A i \in Events(log, "empty") :
               /\ i = Len(log)
               /\ i > 1
               /\ IsVersionQuery(log[i - 1], log[i].what)
               /\ log[i - 1].exit = EXIT_ZERO
               /\ pc = "returned"
               /\ result.ResultCode = ADUC_Result.Failure

\* a common-both IsInstalled whose application version query failed after
\* the firmware version had been found equal
C28_Witness ==
    /\ Returned("IsInstalled")
    /\ wf.typeName = "common-both"
    /\ Len(log) = 4
    /\ log[2] = Note("equal", "--firmware_version")
    /\ IsVersionQuery(log[4], "--application_version")
    /\ log[4].exit = EXIT_OTHER
    /\ result = Res(ADUC_Result.Failure, EXIT_OTHER)


\* C29: Backup always returns Backup_Success and Restore always returns
\* Restore_Success_Unsupported, whatever the state of the work directory and
\* of the updater; neither launches a child process, asks for a reboot, or
\* changes the work directory or the cached update kind.
C29_BackupRestoreNoOp ==
    [][(pc = "idle" /\ op' \in {"Backup", "Restore"}) =>
           /\ pc' = "returned"
           /\ result' = Res(IF op' = "Backup" THEN ADUC_Result.Backup_Success
                            ELSE ADUC_Result.Restore_Success_Unsupported,
                            NoExtendedCode)
           /\ log' = <<>>
           /\ WorkDir' = WorkDir
           /\ update_type' = update_type]_vars

\* a Backup returned on a handler that has a cached update kind and a work
\* directory with the stamps and the sentinel of a Download
C29_Witness ==
    /\ Returned("Backup")
    /\ result = Res(ADUC_Result.Backup_Success, NoExtendedCode)
    /\ update_type \in IndexedKinds
    /\ content["update_location"] # NoFile
    /\ "downloadUpdate" \in sentinels

\* the updater command line the wrapper is to build for its launch arguments
UpdaterArgs(launchArgs) ==
    CASE launchArgs.action = "Install" ->
            <<"--update_file", launchArgs.targetData>>
                \o (IF /\ Len(launchArgs.targetOptions) > 0
                       /\ launchArgs.targetOptions[1] \in {"app", "fw"}
                    THEN <<"--update_type", launchArgs.targetOptions[1]>>
                    ELSE <<>>)
      [] launchArgs.action = "Apply" -> <<"--commit_update">>
      [] launchArgs.action = "Cancel" -> <<"--rollback_update">>
      [] launchArgs.action = "Execute" -> launchArgs.targetOptions

\* the task ran the updater exactly once, with the command line of its
\* action, and exits with the updater's exit code
OneUpdaterRun ==
    /\ Len(log) = 1
    /\ log[1].ev = "launch"
    /\ log[1].what = "updater"
    /\ log[1].args = UpdaterArgs(wf)
    /\ result.ExitStatus = log[1].exit

IncompleteStates ==
    {UPDATER_UPDATE_REBOOT_STATE.INCOMPLETE_FW_UPDATE,
     UPDATER_UPDATE_REBOOT_STATE.INCOMPLETE_APP_UPDATE,
     UPDATER_UPDATE_REBOOT_STATE.INCOMPLETE_APP_FW_UPDATE}

\* C31: when the reboot-state query of Apply reports INCOMPLETE_FW_UPDATE,
\* INCOMPLETE_APP_UPDATE or INCOMPLETE_APP_FW_UPDATE, Apply waits until
\* applyUpdate exists, requests no reboot and issues no commit, and returns
\* what the query left in 'result': Failure with the exit code of the query
\* as extended code.
C31_IncompleteApply ==
    (op = "Apply" /\ FirstExit \in IncompleteStates) =>
        /\ pc \in {"ap_wait", "returned"}
        /\ Events(log, "launch") = {1}
        /\ IsStateQuery(log[1])
        /\ Events(log, "reboot") = {}
        /\ pc = "ap_wait" => Len(log) = 1
        /\ pc = "returned" =>
               /\ log[2] = Event("observed", "applyUpdate", <<>>, "", TRUE)
               /\ Len(log) = 2
               /\ result = Res(ADUC_Result.Failure, FirstExit)

\* an Apply on INCOMPLETE_FW_UPDATE returned after applyUpdate had appeared
C31_Witness ==
    /\ Returned("Apply")
    /\ FirstExit = UPDATER_UPDATE_REBOOT_STATE.INCOMPLETE_FW_UPDATE
    /\ Happened(log, "observed", "applyUpdate") # {}
    /\ result = Res(ADUC_Result.Failure,
                    UPDATER_UPDATE_REBOOT_STATE.INCOMPLETE_FW_UPDATE)

\* a lifecycle call is under way
InCall == pc \notin {"idle", "returned"}

\* whenever a call waits for the sentinel of its phase, that sentinel
\* comes to exist
SentinelArrives ==
    [](pc \in SentinelWaits => <>(PhaseSentinel(op) \in sentinels))

\* C32: with a fair handler thread and a controller that creates the awaited
\* sentinel and leaves it in place, every Download, Install and Apply call
\* returns an outcome in the end; Cancel, IsInstalled, Backup and Restore
\* wait on no sentinel and return whatever the controller does.
C32_EveryCallReturns ==
    /\ [](op \in {"Cancel", "IsInstalled", "Backup", "Restore"} =>
              /\ pc \notin SentinelWaits
              /\ Events(log, "observed") = {})
    /\ SentinelArrives => (InCall ~> (pc = "returned"))
-----------------------------------------------------------------------------
\* C33: Download never goes on with a downloadUpdate sentinel that is older
\* than its own reset. The reset leaves no downloadUpdate behind, whether or
\* not one was there; after it only the controller creates one; and
\* update_location is opened and the downloader called only after Download has
\* seen, later than the reset, a downloadUpdate that existed at that moment.
C33_NoStaleSentinel ==
    /\ [][(pc = "dl_reset" /\ pc' = "dl_open") => "downloadUpdate" \notin sentinels']_vars
    /\ [][("downloadUpdate" \notin sentinels /\ "downloadUpdate" \in sentinels')
             => ~HandlerStep]_vars
    /\ [](op = "Download" =>
            \A i \in Happened(log, "open", "update_location")
                      \cup Events(log, "download") :
                \E j \in Happened(log, "observed", "downloadUpdate") :
                    /\ j < i
                    /\ log[j].armed
                    /\ \E k \in Happened(log, "reset", "") : k < j)

\* a sentinel older than the reset was there, and the downloader ran
C33_Witness ==
    /\ op = "Download"
    /\ \E k \in Happened(log, "reset", "") : log[k].armed
    /\ Events(log, "download") # {}

-----------------------------------------------------------------------------
\* C35: on a failing Install the installUpdate sentinel is removed before
\* errorState is written: errorState is opened only after the removal, and
\* from the opening of errorState on the call deletes no installUpdate, so one
\* the controller creates after it has seen the errorState of this call stays.
C35_RemovalBeforeErrorState ==
    /\ [](op = "Install" =>
            \A j \in Happened(log, "open", "errorState") :
                /\ result.ResultCode # ADUC_Result.Install_Success =>
                       Before(log, j, "remove", "installUpdate")
                /\ \A i \in Happened(log, "remove", "installUpdate") : i < j)
    /\ [][(/\ op = "Install"
            /\ Happened(log, "open", "errorState") # {}
            /\ "installUpdate" \in sentinels)
             => "installUpdate" \in sentinels']_vars

\* a failed Install has written errorState, and an installUpdate created after
\* the removal is there when the call returns
C35_Witness ==
    /\ Returned("Install")
    /\ result.ResultCode = ADUC_Result.Failure
    /\ Happened(log, "remove", "installUpdate") # {}
    /\ Happened(log, "close", "errorState") # {}
    /\ "installUpdate" \in sentinels

-----------------------------------------------------------------------------
RebootResults ==
    {ADUC_Result.Apply_RequiredImmediateReboot,
     ADUC_Result.Cancel_RequiredImmediateReboot}

\* C34: workflow_request_immediate_reboot is called at most once in a
\* lifecycle call, and a call that has returned has called it exactly when its
\* result code is Apply_RequiredImmediateReboot or
\* Cancel_RequiredImmediateReboot; Download, Install, IsInstalled, Backup and
\* Restore never call it.
C34_RebootIffRequired ==
    /\ Cardinality(Events(log, "reboot")) <= 1
    /\ pc = "returned" =>
           (Events(log, "reboot") # {} <=> result.ResultCode \in RebootResults)
    /\ op \in {"Download", "Install", "IsInstalled", "Backup", "Restore"} =>
           /\ Events(log, "reboot") = {}
           /\ result.ResultCode \notin RebootResults

\* a Cancel that rolled back and asked for the reboot
C34_Witness ==
    /\ Returned("Cancel")
    /\ result.ResultCode = ADUC_Result.Cancel_RequiredImmediateReboot
    /\ Events(log, "reboot") # {}

-----------------------------------------------------------------------------
\* C36: the cached update kind is changed by IsInstalled only, and only by the
\* step that returns IsInstalled_NotInstalled, which sets it to the kind named
\* by handler_properties.updateType; every other step of every operation
\* leaves it as it is.
C36_CacheFrame ==
    /\ [][update_type' # update_type =>
             /\ op = "IsInstalled"
             /\ pc' = "returned"
             /\ result'.ResultCode = ADUC_Result.IsInstalled_NotInstalled]_vars
    /\ [][(/\ op = "IsInstalled"
            /\ pc # "returned"
            /\ pc' = "returned"
            /\ result'.ResultCode = ADUC_Result.IsInstalled_NotInstalled)
             => update_type' = getUpdateTypeByName(wf.typeName)]_vars

\* IsInstalled returned NotInstalled for a firmware update and the cache,
\* which an earlier call had set to another kind, names the firmware kind
C36_Witness ==
    /\ Returned("IsInstalled")
    /\ result.ResultCode = ADUC_Result.IsInstalled_NotInstalled
    /\ wf.typeName = "firmware"
    /\ update_type = UPDATE_FIRMWARE

-----------------------------------------------------------------------------
\* C37: the content of errorState determines the outcome it records. After
\* WriteErrorState has written an outcome of non-negative integer codes, the
\* file holds the text of that outcome and of no other: every outcome whose
\* text equals the content of the file is the outcome just written.
C37_ContentDeterminesOutcome ==
    pc = "es_written" =>
        /\ content["errorState"] = ErrorStateDigits(result)
        /\ \A error_code \in NumericOutcomes :
               ErrorStateDigits(error_code) = content["errorState"]
                   => error_code = result

-----------------------------------------------------------------------------
\* the exit code of the one child launched with 'action' in this call
ExitOf(action) == log[CHOOSE i \in Launched(log, action) : TRUE].exit

\* C38: the firmware and the application handler agree with the unified
\* handler on IsInstalled when the version differs: the first outcome assigned
\* is the one returned. On FW_UPDATE_REBOOT_FAILED, and on FAILED_APP_UPDATE or
\* FAILED_FW_UPDATE followed by a successful commit, IsInstalled_Installed is
\* returned; after a failed commit, Failure with
\* ISINSTALLED_FAILURE_COMMIT_PREVIOUS_FAILED_UPDATE.
C38_PerTypeAgrees ==
    (Returned("IsInstalled") /\ Events(log, "differs") # {}) =>
        /\ \A i \in Events(log, "assigned") : result.ResultCode = log[i].what
        /\ ExitOf("execute") = UPDATER_UPDATE_REBOOT_STATE.FW_UPDATE_REBOOT_FAILED =>
               result = Res(ADUC_Result.IsInstalled_Installed, NoExtendedCode)
        /\ ExitOf("execute") \in {UPDATER_UPDATE_REBOOT_STATE.FAILED_APP_UPDATE,
                                  UPDATER_UPDATE_REBOOT_STATE.FAILED_FW_UPDATE} =>
               result = IF ExitOf("apply") = COMMIT_SUCCESSFUL
                        THEN Res(ADUC_Result.IsInstalled_Installed, NoExtendedCode)
                        ELSE Res(ADUC_Result.Failure,
                                 ERC.ISINSTALLED_FAILURE_COMMIT_PREVIOUS_FAILED_UPDATE)

-----------------------------------------------------------------------------
\* C39: in the application handler Install returns Install_Success only when
\* the install child exits with UPDATER_APPLICATION_STATE::UPDATE_SUCCESSFUL;
\* for every other exit code it returns Failure, with
\* INSTALL_FAILURE_APPLICATION_UPDATE when the commit that follows succeeds and
\* INSTALL_FAILURE_COMMIT_UPDATE when it does not.
C39_ApplicationInstall ==
    (Returned("Install") /\ Launched(log, "install") # {}) =>
        /\ result.ResultCode = ADUC_Result.Install_Success =>
               ExitOf("install") = UPDATER_APPLICATION_STATE.UPDATE_SUCCESSFUL
        /\ ExitOf("install") # UPDATER_APPLICATION_STATE.UPDATE_SUCCESSFUL =>
               result = Res(ADUC_Result.Failure,
                            IF ExitOf("apply") = COMMIT_SUCCESSFUL
                            THEN ERC.INSTALL_FAILURE_APPLICATION_UPDATE
                            ELSE ERC.INSTALL_FAILURE_COMMIT_UPDATE)

-----------------------------------------------------------------------------
\* C40: DoFUSUpdateTask called with an action that is none of Install,
\* Execute, Apply, Cancel and Reboot returns a task result whose exit status
\* is ADUSHELL_EXIT_UNSUPPORTED; it invokes no task and launches no updater.
C40_UnsupportedAction ==
    (op = "DoFUSUpdateTask" /\ wf.action = "other") =>
        /\ Events(log, "launch") = {}
        /\ pc \in {"sh_start", "sh_exit"}
        /\ pc = "sh_exit" => result.ExitStatus = ADUSHELL_EXIT_UNSUPPORTED

====
